---- MODULE Spec2Model ----
(***************************************************************************)
(* TaskMaster authentication core: the account store, the security event   *)
(* journal and the handlers of AuthService, PasswordResetService and       *)
(* EmailVerificationService, one action per handler call.                  *)
(*                                                                         *)
(* Time is a discrete clock `now`.  Durations are given on a scale of       *)
(* clock ticks (15 min -> 1, 1 h -> 2, 24 h -> 4, 7 d -> 5, 30 d -> 6): the *)
(* code compares the clock with stamped times shifted by these durations,  *)
(* and the scale keeps their order and that of 1 h + 15 min and 24 h.      *)
(*                                                                         *)
(* SpecLockout, SpecSession, SpecReset, SpecRecovery and SpecVerify each   *)
(* run the handlers that write the columns one component owns; SpecGateway *)
(* runs calls through the authentication interceptor, SpecEvents the       *)
(* journal query, SpecLogout the logout handler, SpecExpiry sessions that  *)
(* outlive their limits and SpecResetCap an account at the reset cap;      *)
(* SpecRegister runs concurrent Register calls, SpecTokens the challenge   *)
(* tokens over their lifetime with the cleanups, SpecScenario the lockout  *)
(* scenario, SpecJournal the journal's writers and SpecShutdown main()     *)
(* with the cleanup job; SpecChain runs calls through the interceptor      *)
(* chains, SpecRole through RequireRole, SpecStatus adds the verification  *)
(* status query to SpecVerify and SpecRace runs Login and RefreshToken as  *)
(* a query step and an update step on two goroutines; Spec runs them all.  *)
(***************************************************************************)
EXTENDS Integers, Sequences, FiniteSets, TLC

VARIABLES
    now,        \* time.Now()
    users,      \* the users table: id -> row
    journal,    \* the security_events table, in insertion order
    nextJti,    \* source of uuid.New() token ids
    nextTok,    \* source of crypto/rand verification and reset tokens
    issued,     \* every refresh token ever returned to a caller
    redeemed,   \* history: refresh tokens a successful RefreshToken consumed
    consumed,   \* history: challenge tokens a successful verify/reset consumed
    registering,\* Register calls in flight between their Exist query and Create
    inflight,   \* Login and RefreshToken calls in flight between query and update
    server,     \* main(): the phase of the process and its shutdown timer
    last        \* the most recent handler call: request and response

vars == <<now, users, journal, nextJti, nextTok, issued, redeemed, consumed,
          inflight, registering, server, last>>

----------------------------------------------------------------------------
(* Bounds of the exploration *)

MaxTime == 2
MaxTokens == 2
MaxChallenges == 2
MaxJournal == 3

----------------------------------------------------------------------------
(* Program constants *)

MaxLoginAttempts == 3
AccountLockoutDuration == 1
RefreshTokenDuration == 5
RefreshTokenRowDuration == 5
SessionTimeoutDuration == 6
PasswordResetTokenDuration == 2
PasswordResetRateLimit == 1
PasswordResetAttemptWindow == 4
MaxPasswordResetAttempts == 5
EmailVerificationTokenDuration == 4
EmailVerificationResendLimit == 2
MaxEmailVerificationAttempts == 5
minLength == 8

NoTime == -1
NoTok == -1
EmptyTok == 0

----------------------------------------------------------------------------
(* Strings.  A string is its lower-case text and whether the caller typed   *)
(* it with upper-case letters; strings.ToLower drops the flag.              *)

Str(t, c) == [text |-> t, cased |-> c]

ToLower(s) == [s EXCEPT !.cased = FALSE]

EmptyStr == Str("", FALSE)

----------------------------------------------------------------------------
(* Passwords (pkg/auth/password.go).  A password is its text and the        *)
(* features ValidatePassword inspects.                                      *)

Pw(t, n, u, l, d) == [text |-> t, len |-> n, upper |-> u, lower |-> l, digit |-> d]

EmptyPw == Pw("", 0, FALSE, FALSE, FALSE)
TestPass == Pw("TestPass123!", 12, TRUE, TRUE, TRUE)
NewPass == Pw("NewPass456!", 11, TRUE, TRUE, TRUE)
WeakPass == Pw("password", 8, FALSE, TRUE, FALSE)

Passwords == {EmptyPw, TestPass, NewPass, WeakPass}

\* PasswordManager.ValidatePassword with the defaults of NewPasswordManager
ValidatePassword(p) ==
    /\ p.len >= minLength
    /\ p.upper
    /\ p.lower
    /\ p.digit

\* bcrypt digest of a password: it matches that password and no other
HashPassword(p) == [bcrypt |-> p.text]

ComparePassword(hash, p) == hash = [bcrypt |-> p.text]

----------------------------------------------------------------------------
(* Bearer tokens (pkg/auth/jwt.go) *)

AccessSecret == "access-secret"
RefreshSecret == "refresh-secret"

Jwt(u, t, j, e, k) == [uid |-> u, typ |-> t, jti |-> j, exp |-> e, sig |-> k]

\* no token: a NULL refresh_token column, or no token in a response
NoToken == Jwt(0, "none", 0, 0, "none")
\* the empty string presented as a token
EmptyToken == Jwt(0, "empty", 0, 0, "none")
\* a string that is not a JWT
GarbageToken == Jwt(0, "garbage", 0, 0, "none")

\* TokenManager.generateToken
generateToken(u, t, k, d, j) == Jwt(u, t, j, now + d, k)

\* a validator that never looks at the kind claim
validateTokenAnyKind(tok, expectedType, secret) ==
    /\ tok.typ \in {"access", "refresh"}
    /\ tok.sig = secret
    /\ now < tok.exp
    /\ ~(tok.exp < now)

\* TokenManager.validateToken: parse, signature, not expired, kind
validateToken(tok, expectedType, secret) ==
    /\ tok.typ \in {"access", "refresh"}      \* jwt.ParseWithClaims: well formed,
    /\ tok.sig = secret                       \* signed with the secret,
    /\ now < tok.exp                          \* and "exp" not reached
    /\ tok.typ = expectedType
    /\ ~(tok.exp < now)

ValidateAccessToken(tok) == validateToken(tok, "access", AccessSecret)

ValidateRefreshToken(tok) == validateToken(tok, "refresh", RefreshSecret)

----------------------------------------------------------------------------
(* The users table *)

\* the accounts the test fixtures insert; Register adds rows to the table
Fixtures == {1, 2, 3}
UserIds == DOMAIN users
NoUser == 0

FixtureEmail(u) ==
    Str(CASE u = 1 -> "test@example.com"
          [] u = 2 -> "inactive@example.com"
          [] u = 3 -> "admin@example.com"
          [] OTHER -> "", FALSE)
FixtureUsername(u) ==
    Str(CASE u = 1 -> "testuser" [] u = 2 -> "inactiveuser" [] u = 3 -> "admin"
          [] OTHER -> "", FALSE)

\* the role column: CreateTestUser and CreateInactiveUser insert RoleUser,
\* CreateAdminUser RoleAdmin; no handler rewrites it
Role(u) == IF u = 3 THEN "admin" ELSE "user"
UnknownEmail == "nobody@example.com"

\* a row as TestHelpers.CreateTestUser / CreateInactiveUser / CreateAdminUser
\* insert it
NewRow(u, active, verified, resetAttempts) ==
    [ email |-> FixtureEmail(u),
      username |-> FixtureUsername(u),
      is_active |-> active,
      password_hash |-> HashPassword(TestPass),
      email_verified |-> verified,
      failed_login_attempts |-> 0,
      account_locked_until |-> NoTime,
      refresh_token |-> NoToken,
      refresh_token_expires_at |-> NoTime,
      last_login |-> NoTime,
      email_verification_token |-> NoTok,
      email_verification_expires_at |-> NoTime,
      email_verification_attempts |-> 0,
      password_reset_token |-> NoTok,
      password_reset_expires_at |-> NoTime,
      password_reset_attempts |-> resetAttempts ]

\* User.Query().Where(Or(EmailEQ(id), UsernameEQ(id)))
FindByLoginId(id) ==
    {u \in UserIds : users[u].email = id \/ users[u].username = id}

----------------------------------------------------------------------------
(* The security event journal (internal/service/security_service.go) *)

EventTypes ==
    {"login_success", "login_failed", "password_changed", "password_reset_requested",
     "password_reset_completed", "email_verification_sent",
     "email_verification_completed", "account_locked", "account_unlocked",
     "security_alert", "suspicious_activity"}

Severities == {"low", "medium", "high", "critical"}

\* security.ParseEventType / security.ParseSeverity accept exactly the enums
ParseEventType(t) == t \in EventTypes
ParseSeverity(s) == s \in Severities

\* SecurityService.LogSecurityEvent: the journal after the call.  SetUserID is
\* skipped for uuid.Nil, and the schema makes user_id and the "user" edge
\* Required(), so Save rejects an event without a user; every caller drops
\* the error.
LogSecurityEvent(j, uid, eventType, severity) ==
    IF ParseEventType(eventType) /\ ParseSeverity(severity) /\ uid # NoUser
    THEN Append(j, [event_type |-> eventType, user_id |-> uid, severity |-> severity,
                    resolved |-> FALSE])
    ELSE j

\* SecurityLogger convenience methods
LogLoginSuccess(j, uid) == LogSecurityEvent(j, uid, "login_success", "low")
LogLoginFailed(j) == LogSecurityEvent(j, NoUser, "login_failed", "medium")
LogAccountLocked(j, uid) == LogSecurityEvent(j, uid, "account_locked", "high")
LogPasswordChanged(j, uid) == LogSecurityEvent(j, uid, "password_changed", "low")
LogPasswordResetCompleted(j, uid) ==
    LogSecurityEvent(j, uid, "password_reset_completed", "low")
LogEmailVerificationSent(j, uid) ==
    LogSecurityEvent(j, uid, "email_verification_sent", "low")
LogEmailVerificationCompleted(j, uid) ==
    LogSecurityEvent(j, uid, "email_verification_completed", "low")

----------------------------------------------------------------------------
(* Responses *)

\* the session and lockout columns of a row, as a handler found them
Snapshot(row) ==
    [ failed_login_attempts |-> row.failed_login_attempts,
      account_locked_until |-> row.account_locked_until,
      refresh_token |-> row.refresh_token ]

NoSnapshot ==
    [ failed_login_attempts |-> 0, account_locked_until |-> NoTime,
      refresh_token |-> NoToken ]

\* GetSecurityEventsRequest.  event_type is the string
\* convertProtoEventTypeToString gives ("" for UNSPECIFIED); created_at values
\* never decrease along the journal, so a date bound is given by how many
\* entries lie before it: from_date the number of entries created before
\* FromDate, to_date the number created at or before ToDate, NoTime for nil;
\* offset is the number Sscanf reads from the page token, 0 if it reads none
EventsRequest(eventType, fromDate, toDate, pageSize, offset) ==
    [event_type |-> eventType, from_date |-> fromDate, to_date |-> toDate,
     page_size |-> pageSize, offset |-> offset]

\* the request with every field at its zero value
NoQuery == EventsRequest("", NoTime, NoTime, 0, 0)

\* what the last call was and returned: op, the account acted on, the status;
\* inner is the status of the service call the handler wrapped; locked, rt are
\* response fields; pw, tok, ch are the request's password, bearer token and
\* challenge token; reg is a Register request; can_resend is the CanResend of
\* a verification status; prev is the row's session and lockout columns before a call
\* that rewrote them; query is a GetSecurityEvents request and events, total,
\* next the page, the total count and the next page offset of its response
Response(op, uid, code) ==
    [ op |-> op, uid |-> uid, code |-> code, inner |-> code, locked |-> FALSE,
      rt |-> NoToken, pw |-> EmptyPw.text, tok |-> NoToken, ch |-> NoTok,
      prev |-> NoSnapshot, query |-> NoQuery, events |-> <<>>, total |-> 0,
      next |-> NoTok, reg |-> <<>>, can_resend |-> FALSE ]

\* seconds main() waits for GracefulStop before it calls Stop
ShutdownTimeout == 5

\* main() once grpcServer.Serve runs: no signal received, no shutdown timer
Serving == [phase |-> "serving", waited |-> 0]

\* The store as the test fixtures seed it: account 1 by CreateTestUser, account 2
\* by CreateInactiveUser, account 3 by CreateAdminUser; account 1 has made `a`
\* password-reset requests so far.
InitWith(a) ==
    /\ now = 0
    /\ users = [u \in Fixtures |-> NewRow(u, u # 2, u = 3, IF u = 1 THEN a ELSE 0)]
    /\ journal = <<>>
    /\ nextJti = 1
    /\ nextTok = 1
    /\ issued = {}
    /\ redeemed = {}
    /\ consumed = {}
    /\ registering = {}
    /\ inflight = {}
    /\ server = Serving
    /\ last = Response("none", NoUser, "OK")

Init == InitWith(0)

\* the clock advances
Tick ==
    /\ now < MaxTime
    /\ now' = now + 1
    /\ UNCHANGED <<users, journal, nextJti, nextTok, issued, redeemed, consumed,
                   inflight, registering, server, last>>

----------------------------------------------------------------------------
(* Bounds on the unbounded parts of the state, applied to the next state *)

WithinBounds ==
    /\ Len(journal') <= MaxJournal
    /\ nextJti' <= MaxTokens + 1
    /\ nextTok' <= MaxChallenges + 1

----------------------------------------------------------------------------
(* AuthService (internal/service/auth_service.go) *)

AccessTokenDuration == 1

\* TokenManager.GenerateTokenPair; n numbers the pair
AccessTokenOf(u, n) == generateToken(u, "access", AccessSecret, AccessTokenDuration, 2 * n - 1)
RefreshTokenOf(u, n) == generateToken(u, "refresh", RefreshSecret, RefreshTokenDuration, 2 * n)

\* a lock check that never fires
IsLockedNever(row) == FALSE

\* foundUser.AccountLockedUntil != nil && foundUser.AccountLockedUntil.After(time.Now())
IsLocked(row) == row.account_locked_until # NoTime /\ row.account_locked_until > now

\* a mismatch branch that locks one attempt late
LoginWrongPasswordLate(u, p) ==
    LET failedAttempts == users[u].failed_login_attempts + 1 IN
    IF failedAttempts > MaxLoginAttempts
    THEN /\ users' = [users EXCEPT ![u].failed_login_attempts = failedAttempts,
                                   ![u].account_locked_until = now + AccountLockoutDuration]
         /\ journal' = LogAccountLocked(journal, u)
         /\ last' = [Response("Login", u, "PermissionDenied") EXCEPT
                        !.locked = TRUE, !.pw = p.text]
    ELSE /\ users' = [users EXCEPT ![u].failed_login_attempts = failedAttempts]
         /\ journal' = LogLoginFailed(journal)
         /\ last' = [Response("Login", u, "Unauthenticated") EXCEPT !.pw = p.text]

\* a mismatch branch that counts from one again once a lock has run out
LoginWrongPasswordFresh(u, p) ==
    LET failedAttempts == IF users[u].account_locked_until # NoTime
                          THEN 1 ELSE users[u].failed_login_attempts + 1 IN
    IF failedAttempts >= MaxLoginAttempts
    THEN /\ users' = [users EXCEPT ![u].failed_login_attempts = failedAttempts,
                                   ![u].account_locked_until = now + AccountLockoutDuration]
         /\ journal' = LogAccountLocked(journal, u)
         /\ last' = [Response("Login", u, "PermissionDenied") EXCEPT
                        !.locked = TRUE, !.pw = p.text]
    ELSE /\ users' = [users EXCEPT ![u].failed_login_attempts = failedAttempts,
                                   ![u].account_locked_until = NoTime]
         /\ journal' = LogLoginFailed(journal)
         /\ last' = [Response("Login", u, "Unauthenticated") EXCEPT !.pw = p.text]

\* Login, "Verify password" branch taken on a mismatch (lines 197-241)
LoginWrongPassword(u, p) ==
    LET failedAttempts == users[u].failed_login_attempts + 1 IN
    IF failedAttempts >= MaxLoginAttempts
    THEN /\ users' = [users EXCEPT ![u].failed_login_attempts = failedAttempts,
                                   ![u].account_locked_until = now + AccountLockoutDuration]
         /\ journal' = LogAccountLocked(journal, u)
         /\ last' = [Response("Login", u, "PermissionDenied") EXCEPT
                        !.locked = TRUE, !.pw = p.text]
    ELSE /\ users' = [users EXCEPT ![u].failed_login_attempts = failedAttempts]
         /\ journal' = LogLoginFailed(journal)
         /\ last' = [Response("Login", u, "Unauthenticated") EXCEPT !.pw = p.text]

\* a successful login that leaves the failure counter and the lock in place
LoginSuccessKeepLock(u, p) ==
    LET refreshToken == RefreshTokenOf(u, nextJti) IN
    /\ users' = [users EXCEPT ![u].refresh_token = refreshToken,
                              ![u].refresh_token_expires_at = now + RefreshTokenRowDuration,
                              ![u].last_login = now]
    /\ journal' = LogLoginSuccess(journal, u)
    /\ nextJti' = nextJti + 1
    /\ issued' = issued \cup {refreshToken}
    /\ last' = [Response("Login", u, "OK") EXCEPT !.rt = refreshToken, !.pw = p.text]

\* Login, after the password matched (lines 243-284)
LoginSuccess(u, p) ==
    LET refreshToken == RefreshTokenOf(u, nextJti) IN
    /\ users' = [users EXCEPT ![u].refresh_token = refreshToken,
                              ![u].refresh_token_expires_at = now + RefreshTokenRowDuration,
                              ![u].last_login = now,
                              ![u].failed_login_attempts = 0,
                              ![u].account_locked_until = NoTime]
    /\ journal' = LogLoginSuccess(journal, u)
    /\ nextJti' = nextJti + 1
    /\ issued' = issued \cup {refreshToken}
    /\ last' = [Response("Login", u, "OK") EXCEPT !.rt = refreshToken, !.pw = p.text]

Login(id, p) ==
    LET loginID == ToLower(id)
        found == FindByLoginId(loginID)
    IN
    /\ IF id.text = "" \/ p.text = ""
       THEN /\ last' = [Response("Login", NoUser, "InvalidArgument") EXCEPT !.pw = p.text]
            /\ UNCHANGED <<users, journal, nextJti, issued>>
       ELSE IF found = {}
       THEN /\ journal' = LogLoginFailed(journal)
            /\ last' = [Response("Login", NoUser, "Unauthenticated") EXCEPT !.pw = p.text]
            /\ UNCHANGED <<users, nextJti, issued>>
       ELSE LET u == CHOOSE x \in found : TRUE IN
            IF IsLocked(users[u])
            THEN /\ last' = [Response("Login", u, "PermissionDenied") EXCEPT
                                !.locked = TRUE, !.pw = p.text]
                 /\ UNCHANGED <<users, journal, nextJti, issued>>
            ELSE IF ~users[u].is_active
            THEN /\ last' = [Response("Login", u, "PermissionDenied") EXCEPT !.pw = p.text]
                 /\ UNCHANGED <<users, journal, nextJti, issued>>
            ELSE IF ~ComparePassword(users[u].password_hash, p)
            THEN /\ LoginWrongPassword(u, p)
                 /\ UNCHANGED <<nextJti, issued>>
            ELSE LoginSuccess(u, p)
    /\ UNCHANGED <<inflight, registering, server, now, nextTok, redeemed, consumed>>
    /\ WithinBounds

\* Login on goroutine c up to the answer of its query (lines 163-182): a call
\* that finds no row, or has no identifier or password, ends here; otherwise
\* the call holds the row as the query returned it
LoginLookup(c, id, p) ==
    LET found == FindByLoginId(ToLower(id)) IN
    /\ server.phase = "serving"
    /\ \A x \in inflight : x.caller # c
    /\ IF id.text = "" \/ p.text = "" \/ found = {}
       THEN Login(id, p)
       ELSE /\ inflight' = inflight \cup
                   {[caller |-> c, op |-> "Login", uid |-> CHOOSE x \in found : TRUE,
                     row |-> users[CHOOSE x \in found : TRUE], pw |-> p, tok |-> NoToken]}
            /\ UNCHANGED <<registering, server, now, users, journal, nextJti, nextTok,
                           issued, redeemed, consumed, last>>

\* Login on goroutine c from the lock check on (lines 184-284), working on the
\* row its query returned: foundUser.Update() writes the columns it sets and
\* no others
LoginFinish(c) ==
    \E call \in inflight :
       LET u == call.uid
           foundUser == call.row
           failedAttempts == foundUser.failed_login_attempts + 1
       IN
       /\ call.caller = c /\ call.op = "Login"
       /\ inflight' = inflight \ {call}
       /\ IF IsLocked(foundUser)
          THEN /\ last' = [Response("Login", u, "PermissionDenied") EXCEPT
                              !.locked = TRUE, !.pw = call.pw.text]
               /\ UNCHANGED <<users, journal, nextJti, issued>>
          ELSE IF ~foundUser.is_active
          THEN /\ last' = [Response("Login", u, "PermissionDenied") EXCEPT
                              !.pw = call.pw.text]
               /\ UNCHANGED <<users, journal, nextJti, issued>>
          ELSE IF ~ComparePassword(foundUser.password_hash, call.pw)
          THEN /\ IF failedAttempts >= MaxLoginAttempts
                  THEN /\ users' = [users EXCEPT
                                       ![u].failed_login_attempts = failedAttempts,
                                       ![u].account_locked_until =
                                           now + AccountLockoutDuration]
                       /\ journal' = LogAccountLocked(journal, u)
                       /\ last' = [Response("Login", u, "PermissionDenied") EXCEPT
                                      !.locked = TRUE, !.pw = call.pw.text]
                  ELSE /\ users' = [users EXCEPT
                                       ![u].failed_login_attempts = failedAttempts]
                       /\ journal' = LogLoginFailed(journal)
                       /\ last' = [Response("Login", u, "Unauthenticated") EXCEPT
                                      !.pw = call.pw.text]
               /\ UNCHANGED <<nextJti, issued>>
          ELSE LoginSuccess(u, call.pw)
       /\ UNCHANGED <<registering, server, now, nextTok, redeemed, consumed>>
       /\ WithinBounds

\* a refresh token no TokenManager signed
ForgedToken == Jwt(1, "refresh", 0, MaxTime + 1, "attacker-secret")

PresentedTokens == issued \cup {EmptyToken, GarbageToken, ForgedToken}

\* RefreshToken: the row the query of lines 304-312 returns
FindByRefreshToken(tok) ==
    {u \in UserIds : u = tok.uid /\ users[u].refresh_token = tok /\ users[u].is_active}

\* a refresh that mints a pair but leaves the stored token in place
RefreshTokenNoRotation(tok) ==
    LET found == FindByRefreshToken(tok) IN
    /\ IF tok.typ = "empty"
       THEN /\ last' = [Response("RefreshToken", NoUser, "InvalidArgument") EXCEPT !.tok = tok]
            /\ UNCHANGED <<users, nextJti, issued, redeemed>>
       ELSE IF ~ValidateRefreshToken(tok)
       THEN /\ last' = [Response("RefreshToken", NoUser, "Unauthenticated") EXCEPT !.tok = tok]
            /\ UNCHANGED <<users, nextJti, issued, redeemed>>
       ELSE IF found = {}
       THEN /\ last' = [Response("RefreshToken", tok.uid, "Unauthenticated") EXCEPT !.tok = tok]
            /\ UNCHANGED <<users, nextJti, issued, redeemed>>
       ELSE LET u == CHOOSE x \in found : TRUE
                row == users[u]
            IN
            IF row.refresh_token_expires_at # NoTime /\ row.refresh_token_expires_at < now
            THEN /\ last' = [Response("RefreshToken", u, "Unauthenticated") EXCEPT !.tok = tok]
                 /\ UNCHANGED <<users, nextJti, issued, redeemed>>
            ELSE IF row.last_login # NoTime /\ now - row.last_login > SessionTimeoutDuration
            THEN /\ users' = [users EXCEPT ![u].refresh_token = NoToken,
                                           ![u].refresh_token_expires_at = NoTime]
                 /\ last' = [Response("RefreshToken", u, "Unauthenticated") EXCEPT !.tok = tok]
                 /\ UNCHANGED <<nextJti, issued, redeemed>>
            ELSE LET refreshToken == RefreshTokenOf(u, nextJti) IN
                 /\ users' = [users EXCEPT
                                 ![u].refresh_token_expires_at = now + RefreshTokenRowDuration]
                 /\ nextJti' = nextJti + 1
                 /\ issued' = issued \cup {refreshToken}
                 /\ redeemed' = redeemed \cup {tok}
                 /\ last' = [Response("RefreshToken", u, "OK") EXCEPT
                                !.rt = refreshToken, !.tok = tok]
    /\ UNCHANGED <<inflight, registering, server, now, journal, nextTok, consumed>>
    /\ WithinBounds

\* a refresh that looks at neither the stored expiry nor the age of the login
RefreshTokenUnexpiring(tok) ==
    LET found == FindByRefreshToken(tok) IN
    /\ IF tok.typ = "empty"
       THEN /\ last' = [Response("RefreshToken", NoUser, "InvalidArgument") EXCEPT !.tok = tok]
            /\ UNCHANGED <<users, nextJti, issued, redeemed>>
       ELSE IF ~ValidateRefreshToken(tok)
       THEN /\ last' = [Response("RefreshToken", NoUser, "Unauthenticated") EXCEPT !.tok = tok]
            /\ UNCHANGED <<users, nextJti, issued, redeemed>>
       ELSE IF found = {}
       THEN /\ last' = [Response("RefreshToken", tok.uid, "Unauthenticated") EXCEPT !.tok = tok]
            /\ UNCHANGED <<users, nextJti, issued, redeemed>>
       ELSE LET u == CHOOSE x \in found : TRUE
                row == users[u]
            IN
            LET refreshToken == RefreshTokenOf(u, nextJti) IN
                 /\ users' = [users EXCEPT
                                 ![u].refresh_token = refreshToken,
                                 ![u].refresh_token_expires_at = now + RefreshTokenRowDuration]
                 /\ nextJti' = nextJti + 1
                 /\ issued' = issued \cup {refreshToken}
                 /\ redeemed' = redeemed \cup {tok}
                 /\ last' = [Response("RefreshToken", u, "OK") EXCEPT
                                !.rt = refreshToken, !.tok = tok]
    /\ UNCHANGED <<inflight, registering, server, now, journal, nextTok, consumed>>
    /\ WithinBounds

\* RefreshToken (lines 287-364)
RefreshToken(tok) ==
    LET found == FindByRefreshToken(tok) IN
    /\ IF tok.typ = "empty"
       THEN /\ last' = [Response("RefreshToken", NoUser, "InvalidArgument") EXCEPT !.tok = tok]
            /\ UNCHANGED <<users, nextJti, issued, redeemed>>
       ELSE IF ~ValidateRefreshToken(tok)
       THEN /\ last' = [Response("RefreshToken", NoUser, "Unauthenticated") EXCEPT !.tok = tok]
            /\ UNCHANGED <<users, nextJti, issued, redeemed>>
       ELSE IF found = {}
       THEN /\ last' = [Response("RefreshToken", tok.uid, "Unauthenticated") EXCEPT !.tok = tok]
            /\ UNCHANGED <<users, nextJti, issued, redeemed>>
       ELSE LET u == CHOOSE x \in found : TRUE
                row == users[u]
            IN
            IF row.refresh_token_expires_at # NoTime /\ row.refresh_token_expires_at < now
            THEN /\ last' = [Response("RefreshToken", u, "Unauthenticated") EXCEPT !.tok = tok]
                 /\ UNCHANGED <<users, nextJti, issued, redeemed>>
            ELSE IF row.last_login # NoTime /\ now - row.last_login > SessionTimeoutDuration
            THEN /\ users' = [users EXCEPT ![u].refresh_token = NoToken,
                                           ![u].refresh_token_expires_at = NoTime]
                 /\ last' = [Response("RefreshToken", u, "Unauthenticated") EXCEPT !.tok = tok]
                 /\ UNCHANGED <<nextJti, issued, redeemed>>
            ELSE LET refreshToken == RefreshTokenOf(u, nextJti) IN
                 /\ users' = [users EXCEPT
                                 ![u].refresh_token = refreshToken,
                                 ![u].refresh_token_expires_at = now + RefreshTokenRowDuration]
                 /\ nextJti' = nextJti + 1
                 /\ issued' = issued \cup {refreshToken}
                 /\ redeemed' = redeemed \cup {tok}
                 /\ last' = [Response("RefreshToken", u, "OK") EXCEPT
                                !.rt = refreshToken, !.tok = tok]
    /\ UNCHANGED <<inflight, registering, server, now, journal, nextTok, consumed>>
    /\ WithinBounds

\* RefreshToken on goroutine c up to the answer of its query (lines 288-320):
\* a call whose token is empty, does not validate or is not the stored one of
\* an active account ends here; otherwise the call holds the row it found
RefreshTokenLookup(c, tok) ==
    LET found == FindByRefreshToken(tok) IN
    /\ server.phase = "serving"
    /\ \A x \in inflight : x.caller # c
    /\ IF tok.typ = "empty" \/ ~ValidateRefreshToken(tok) \/ found = {}
       THEN RefreshToken(tok)
       ELSE /\ inflight' = inflight \cup
                   {[caller |-> c, op |-> "RefreshToken", uid |-> tok.uid,
                     row |-> users[tok.uid], pw |-> EmptyPw, tok |-> tok]}
            /\ UNCHANGED <<registering, server, now, users, journal, nextJti, nextTok,
                           issued, redeemed, consumed, last>>

\* RefreshToken on goroutine c from the expiry check on (lines 322-364),
\* working on the row its query returned
RefreshTokenFinish(c) ==
    \E call \in inflight :
       LET u == call.uid
           foundUser == call.row
           refreshToken == RefreshTokenOf(u, nextJti)
           R(code) == [Response("RefreshToken", u, code) EXCEPT !.tok = call.tok]
       IN
       /\ call.caller = c /\ call.op = "RefreshToken"
       /\ inflight' = inflight \ {call}
       /\ IF /\ foundUser.refresh_token_expires_at # NoTime
             /\ foundUser.refresh_token_expires_at < now
          THEN /\ last' = R("Unauthenticated")
               /\ UNCHANGED <<users, nextJti, issued, redeemed>>
          ELSE IF /\ foundUser.last_login # NoTime
                  /\ now - foundUser.last_login > SessionTimeoutDuration
          THEN /\ users' = [users EXCEPT ![u].refresh_token = NoToken,
                                         ![u].refresh_token_expires_at = NoTime]
               /\ last' = R("Unauthenticated")
               /\ UNCHANGED <<nextJti, issued, redeemed>>
          ELSE /\ users' = [users EXCEPT
                               ![u].refresh_token = refreshToken,
                               ![u].refresh_token_expires_at =
                                   now + RefreshTokenRowDuration]
               /\ nextJti' = nextJti + 1
               /\ issued' = issued \cup {refreshToken}
               /\ redeemed' = redeemed \cup {call.tok}
               /\ last' = [R("OK") EXCEPT !.rt = refreshToken]
       /\ UNCHANGED <<registering, server, now, journal, nextTok, consumed>>
       /\ WithinBounds

\* a logout that reads the claims of a token without validating it
LogoutUnvalidated(tok) ==
    /\ IF tok.typ = "empty" \/ tok.uid \notin UserIds
       THEN UNCHANGED users
       ELSE users' = [users EXCEPT ![tok.uid].refresh_token = NoToken,
                                   ![tok.uid].refresh_token_expires_at = NoTime]
    /\ last' = [Response("Logout", NoUser, "OK") EXCEPT !.tok = tok]
    /\ UNCHANGED <<inflight, registering, server, now, journal, nextJti, nextTok, issued, redeemed, consumed>>

\* Logout (lines 367-398)
\* a logout that only ends the session the presented token belongs to
LogoutStoredOnly(tok) ==
    /\ IF tok.typ = "empty" \/ ~ValidateRefreshToken(tok) \/ tok.uid \notin UserIds
          \/ users[tok.uid].refresh_token # tok
       THEN UNCHANGED users
       ELSE users' = [users EXCEPT ![tok.uid].refresh_token = NoToken,
                                   ![tok.uid].refresh_token_expires_at = NoTime]
    /\ last' = [Response("Logout", NoUser, "OK") EXCEPT !.tok = tok]
    /\ UNCHANGED <<inflight, registering, server, now, journal, nextJti, nextTok, issued, redeemed, consumed>>

\* AuthService.Logout (lines 367-398)
Logout(tok) ==
    /\ IF tok.typ = "empty" \/ ~ValidateRefreshToken(tok) \/ tok.uid \notin UserIds
       THEN UNCHANGED users
       ELSE users' = [users EXCEPT ![tok.uid].refresh_token = NoToken,
                                   ![tok.uid].refresh_token_expires_at = NoTime]
    /\ last' = [Response("Logout", NoUser, "OK") EXCEPT !.tok = tok]
    /\ UNCHANGED <<inflight, registering, server, now, journal, nextJti, nextTok, issued, redeemed, consumed>>

\* an id no row has
UnknownUserId == Cardinality(UserIds) + 1
\* a string uuid.Parse rejects
MalformedUserId == -2

\* a password change that leaves the session in place
ChangePasswordKeepSession(ctxUser, cur, new) ==
    /\ IF ctxUser = NoUser
       THEN /\ last' = Response("ChangePassword", NoUser, "Unauthenticated")
            /\ UNCHANGED <<users, journal>>
       ELSE IF cur.text = "" \/ new.text = ""
       THEN /\ last' = Response("ChangePassword", ctxUser, "InvalidArgument")
            /\ UNCHANGED <<users, journal>>
       ELSE IF ctxUser \notin UserIds
       THEN /\ last' = Response("ChangePassword", ctxUser, "NotFound")
            /\ UNCHANGED <<users, journal>>
       ELSE IF ~ComparePassword(users[ctxUser].password_hash, cur)
       THEN /\ last' = Response("ChangePassword", ctxUser, "InvalidArgument")
            /\ UNCHANGED <<users, journal>>
       ELSE IF ~ValidatePassword(new)
       THEN /\ last' = Response("ChangePassword", ctxUser, "InvalidArgument")
            /\ UNCHANGED <<users, journal>>
       ELSE /\ users' = [users EXCEPT ![ctxUser].password_hash = HashPassword(new)]
            /\ journal' = LogPasswordChanged(journal, ctxUser)
            /\ last' = [Response("ChangePassword", ctxUser, "OK") EXCEPT
                           !.pw = new.text, !.prev = Snapshot(users[ctxUser])]
    /\ UNCHANGED <<inflight, registering, server, now, nextJti, nextTok, issued, redeemed, consumed>>
    /\ WithinBounds

\* ctxUser: the user id the authenticator stamped on the context, NoUser if none
ChangePassword(ctxUser, cur, new) ==
    /\ IF ctxUser = NoUser
       THEN /\ last' = Response("ChangePassword", NoUser, "Unauthenticated")
            /\ UNCHANGED <<users, journal>>
       ELSE IF cur.text = "" \/ new.text = ""
       THEN /\ last' = Response("ChangePassword", ctxUser, "InvalidArgument")
            /\ UNCHANGED <<users, journal>>
       ELSE IF ctxUser \notin UserIds
       THEN /\ last' = Response("ChangePassword", ctxUser, "NotFound")
            /\ UNCHANGED <<users, journal>>
       ELSE IF ~ComparePassword(users[ctxUser].password_hash, cur)
       THEN /\ last' = Response("ChangePassword", ctxUser, "InvalidArgument")
            /\ UNCHANGED <<users, journal>>
       ELSE IF ~ValidatePassword(new)
       THEN /\ last' = Response("ChangePassword", ctxUser, "InvalidArgument")
            /\ UNCHANGED <<users, journal>>
       ELSE /\ users' = [users EXCEPT ![ctxUser].password_hash = HashPassword(new),
                                      ![ctxUser].refresh_token = NoToken,
                                      ![ctxUser].refresh_token_expires_at = NoTime]
            /\ journal' = LogPasswordChanged(journal, ctxUser)
            /\ last' = [Response("ChangePassword", ctxUser, "OK") EXCEPT
                           !.pw = new.text, !.prev = Snapshot(users[ctxUser])]
    /\ UNCHANGED <<inflight, registering, server, now, nextJti, nextTok, issued, redeemed, consumed>>
    /\ WithinBounds

Reverse(seq) == [i \in 1 .. Len(seq) |-> seq[Len(seq) + 1 - i]]

Min(a, b) == IF a <= b THEN a ELSE b

\* a query that never narrows to the caller
SecurityEventQueryAll(ctxUser, ctxRole, req) ==
    LET lo == IF req.from_date = NoTime THEN 0 ELSE req.from_date
        hi == IF req.to_date = NoTime THEN Len(journal) ELSE Min(req.to_date, Len(journal))
        keep(e) ==
            (req.event_type # "" /\ ParseEventType(req.event_type))
               => e.event_type = req.event_type
    IN SelectSeq(SubSeq(journal, lo + 1, hi), keep)

\* GetSecurityEvents, "Build query" to "Apply date filters" (lines 677-701):
\* the rows the query matches, oldest first
SecurityEventQuery(ctxUser, ctxRole, req) ==
    LET lo == IF req.from_date = NoTime THEN 0 ELSE req.from_date
        hi == IF req.to_date = NoTime THEN Len(journal) ELSE Min(req.to_date, Len(journal))
        keep(e) ==
            /\ ctxRole # "admin" => e.user_id = ctxUser
            /\ (req.event_type # "" /\ ParseEventType(req.event_type))
                  => e.event_type = req.event_type
    IN SelectSeq(SubSeq(journal, lo + 1, hi), keep)

\* ctx: the values the authenticator stamped on the context
GetSecurityEvents(ctx, req) ==
    /\ IF ctx.user_id = NoUser
       THEN last' = Response("GetSecurityEvents", NoUser, "Unauthenticated")
       ELSE IF ctx.user_id = MalformedUserId
       THEN last' = Response("GetSecurityEvents", NoUser, "InvalidArgument")
       ELSE LET matched == SecurityEventQuery(ctx.user_id, ctx.role, req)
                totalCount == Len(matched)
                pageSize == IF req.page_size <= 0 THEN 10
                            ELSE IF req.page_size > 100 THEN 100 ELSE req.page_size
                offset == req.offset
                events == SubSeq(Reverse(matched), offset + 1,
                                 Min(offset + pageSize, totalCount))
            IN last' = [Response("GetSecurityEvents", ctx.user_id, "OK") EXCEPT
                           !.query = req,
                           !.events = events,
                           !.total = totalCount,
                           !.next = IF Len(events) = pageSize
                                       /\ offset + pageSize < totalCount
                                    THEN offset + pageSize ELSE NoTok]
    /\ UNCHANGED <<inflight, registering, server, now, users, journal, nextJti, nextTok, issued, redeemed, consumed>>

\* a resolve that flips the flag instead of setting it
ResolveSecurityEventToggle(eventID) ==
    /\ IF eventID \in 1 .. Len(journal)
       THEN /\ journal' = [journal EXCEPT ![eventID].resolved = ~@]
            /\ last' = Response("ResolveSecurityEvent", NoUser, "OK")
       ELSE /\ UNCHANGED journal
            /\ last' = Response("ResolveSecurityEvent", NoUser, "Error")
    /\ UNCHANGED <<inflight, registering, server, now, users, nextJti, nextTok, issued, redeemed, consumed>>

\* SecurityService.ResolveSecurityEvent: UpdateOneID(eventID).SetResolved(true);
\* an entry is named by its position in the journal, and Save fails with
\* NotFound, which the method wraps, when no entry has the id
ResolveSecurityEvent(eventID) ==
    /\ IF eventID \in 1 .. Len(journal)
       THEN /\ journal' = [journal EXCEPT ![eventID].resolved = TRUE]
            /\ last' = Response("ResolveSecurityEvent", NoUser, "OK")
       ELSE /\ UNCHANGED journal
            /\ last' = Response("ResolveSecurityEvent", NoUser, "Error")
    /\ UNCHANGED <<inflight, registering, server, now, users, nextJti, nextTok, issued, redeemed, consumed>>

\* an unlock that skips the role check
UnlockAccountAnyRole(ctxRole, target) ==
    /\ IF target = MalformedUserId
       THEN /\ last' = Response("UnlockAccount", NoUser, "InvalidArgument")
            /\ UNCHANGED <<users, journal>>
       ELSE IF target \notin UserIds
       THEN /\ last' = Response("UnlockAccount", target, "NotFound")
            /\ UNCHANGED <<users, journal>>
       ELSE /\ users' = [users EXCEPT ![target].failed_login_attempts = 0,
                                      ![target].account_locked_until = NoTime]
            /\ journal' = LogSecurityEvent(journal, target, "account_unlocked", "low")
            /\ last' = [Response("UnlockAccount", target, "OK") EXCEPT
                           !.prev = Snapshot(users[target])]
    /\ UNCHANGED <<inflight, registering, server, now, nextJti, nextTok, issued, redeemed, consumed>>
    /\ WithinBounds

\* ctxRole: the role the authenticator stamped on the context, "" if none
UnlockAccount(ctxRole, target) ==
    /\ IF ctxRole # "admin"
       THEN /\ last' = Response("UnlockAccount", NoUser, "PermissionDenied")
            /\ UNCHANGED <<users, journal>>
       ELSE IF target = MalformedUserId
       THEN /\ last' = Response("UnlockAccount", NoUser, "InvalidArgument")
            /\ UNCHANGED <<users, journal>>
       ELSE IF target \notin UserIds
       THEN /\ last' = Response("UnlockAccount", target, "NotFound")
            /\ UNCHANGED <<users, journal>>
       ELSE /\ users' = [users EXCEPT ![target].failed_login_attempts = 0,
                                      ![target].account_locked_until = NoTime]
            /\ journal' = LogSecurityEvent(journal, target, "account_unlocked", "low")
            /\ last' = [Response("UnlockAccount", target, "OK") EXCEPT
                           !.prev = Snapshot(users[target])]
    /\ UNCHANGED <<inflight, registering, server, now, nextJti, nextTok, issued, redeemed, consumed>>
    /\ WithinBounds

----------------------------------------------------------------------------
(* PasswordResetService (internal/service/password_reset.go) *)

\* PasswordResetService.logSecurityEvent / logUserSecurityEvent
logSecurityEvent(j, uid, eventType, severity) == LogSecurityEvent(j, uid, eventType, severity)

\* challenge tokens a caller may present: empty, issued, or never issued
ChallengeInputs == 0 .. (MaxChallenges + 1)

Addresses ==
    { Str("test@example.com", FALSE), Str("test@example.com", TRUE),
      Str("inactive@example.com", FALSE), Str(UnknownEmail, FALSE), EmptyStr }

\* User.Query().Where(And(EmailEQ(email), IsActiveEQ(true)))
FindActiveByEmail(email) ==
    {u \in UserIds : users[u].email = email /\ users[u].is_active}

\* User.Query().Where(And(PasswordResetTokenEQ(token), IsActiveEQ(true)))
FindByResetToken(t) ==
    {u \in UserIds : users[u].password_reset_token = t /\ users[u].is_active}

\* a handler that hands the service's status to the caller
RequestPasswordResetStatusPropagated(err) == err

\* AuthService.RequestPasswordReset: the status returned for the service's err
RequestPasswordResetStatus(err) == "OK"

\* a rate limit that never applies
RateLimitedNever(row) == FALSE

\* RequestPasswordReset, "Check rate limiting" (lines 85-96)
RateLimited(row) ==
    /\ row.password_reset_expires_at # NoTime
    /\ now < row.password_reset_expires_at - PasswordResetTokenDuration
               + PasswordResetRateLimit

\* PasswordResetService.RequestPasswordReset as AuthService.RequestPasswordReset
\* calls it; last.inner is the service's status, last.code the handler's
RequestPasswordResetService(email, mailOk) ==
    LET addr == ToLower(email)
        found == FindActiveByEmail(addr)
        R(uid, err) == [Response("RequestPasswordReset", uid,
                                 RequestPasswordResetStatus(err)) EXCEPT !.inner = err]
    IN
    IF email.text = ""
    THEN /\ last' = R(NoUser, "InvalidArgument")
         /\ UNCHANGED <<users, journal, nextTok>>
    ELSE IF found = {}
    THEN /\ journal' = logSecurityEvent(journal, NoUser,
                            "password_reset_attempted_invalid_email", "medium")
         /\ last' = R(NoUser, "OK")
         /\ UNCHANGED <<users, nextTok>>
    ELSE LET u == CHOOSE x \in found : TRUE
             row == users[u]
         IN
         IF RateLimited(row)
         THEN /\ journal' = LogSecurityEvent(journal, u, "suspicious_activity", "medium")
              /\ last' = R(u, "ResourceExhausted")
              /\ UNCHANGED <<users, nextTok>>
         ELSE IF /\ row.password_reset_attempts >= MaxPasswordResetAttempts
                 /\ row.password_reset_expires_at # NoTime
                 /\ now - row.password_reset_expires_at < PasswordResetAttemptWindow
         THEN /\ journal' = logSecurityEvent(journal, u,
                                 "password_reset_attempts_exceeded", "high")
              /\ last' = R(u, "ResourceExhausted")
              /\ UNCHANGED <<users, nextTok>>
         ELSE LET attempts == IF row.password_reset_attempts >= MaxPasswordResetAttempts
                              THEN 0 ELSE row.password_reset_attempts
              IN
              /\ users' = [users EXCEPT
                              ![u].password_reset_token = nextTok,
                              ![u].password_reset_expires_at = now + PasswordResetTokenDuration,
                              ![u].password_reset_attempts = attempts + 1]
              /\ nextTok' = nextTok + 1
              /\ IF mailOk
                 THEN /\ journal' = LogSecurityEvent(journal, u,
                                         "password_reset_requested", "low")
                      /\ last' = R(u, "OK")
                 ELSE /\ journal' = LogSecurityEvent(journal, u, "security_alert", "high")
                      /\ last' = R(u, "Internal")

RequestPasswordReset(email, mailOk) ==
    /\ RequestPasswordResetService(email, mailOk)
    /\ UNCHANGED <<inflight, registering, server, now, nextJti, issued, redeemed, consumed>>
    /\ WithinBounds

VerifyPasswordResetToken(t) ==
    LET found == FindByResetToken(t)
        R(uid, code) == [Response("VerifyPasswordResetToken", uid, code) EXCEPT !.ch = t]
    IN
    /\ IF t = EmptyTok
       THEN last' = R(NoUser, "InvalidArgument")
       ELSE IF found = {}
       THEN last' = R(NoUser, "NotFound")
       ELSE LET u == CHOOSE x \in found : TRUE IN
            IF /\ users[u].password_reset_expires_at # NoTime
               /\ users[u].password_reset_expires_at < now
            THEN last' = R(u, "DeadlineExceeded")
            ELSE last' = R(u, "OK")
    /\ UNCHANGED <<inflight, registering, server, now, users, journal, nextJti, nextTok, issued, redeemed, consumed>>

\* an Update that leaves the reset token in place
ResetPasswordUpdateKeepToken(row, new) ==
    [row EXCEPT !.password_hash = HashPassword(new),
                !.password_reset_attempts = 0,
                !.refresh_token = NoToken,
                !.refresh_token_expires_at = NoTime,
                !.failed_login_attempts = 0,
                !.account_locked_until = NoTime]

\* an Update that leaves the session and the lockout columns in place
ResetPasswordUpdateKeepSession(row, new) ==
    [row EXCEPT !.password_hash = HashPassword(new),
                !.password_reset_token = NoTok,
                !.password_reset_expires_at = NoTime,
                !.password_reset_attempts = 0]

\* the Update of ResetPassword, lines 242-253
ResetPasswordUpdate(row, new) ==
    [row EXCEPT !.password_hash = HashPassword(new),
                !.password_reset_token = NoTok,
                !.password_reset_expires_at = NoTime,
                !.password_reset_attempts = 0,
                !.refresh_token = NoToken,
                !.refresh_token_expires_at = NoTime,
                !.failed_login_attempts = 0,
                !.account_locked_until = NoTime]

\* security_notifications_enabled: the schema default, never changed here
SecurityNotificationsEnabled == TRUE

ResetPassword(t, new, mailOk) ==
    LET found == FindByResetToken(t)
        R(uid, code) == [Response("ResetPassword", uid, code) EXCEPT
                            !.ch = t, !.pw = new.text]
    IN
    /\ IF t = EmptyTok \/ new.text = "" \/ ~ValidatePassword(new)
       THEN /\ last' = R(NoUser, "InvalidArgument")
            /\ UNCHANGED <<users, journal, consumed>>
       ELSE IF found = {}
       THEN /\ journal' = LogSecurityEvent(journal, NoUser, "suspicious_activity", "medium")
            /\ last' = R(NoUser, "NotFound")
            /\ UNCHANGED <<users, consumed>>
       ELSE LET u == CHOOSE x \in found : TRUE IN
            IF /\ users[u].password_reset_expires_at # NoTime
               /\ users[u].password_reset_expires_at < now
            THEN /\ journal' = LogSecurityEvent(journal, u, "suspicious_activity", "medium")
                 /\ last' = R(u, "DeadlineExceeded")
                 /\ UNCHANGED <<users, consumed>>
            ELSE /\ users' = [users EXCEPT ![u] = ResetPasswordUpdate(users[u], new)]
                 /\ journal' =
                       LogPasswordResetCompleted(
                           IF SecurityNotificationsEnabled /\ ~mailOk
                           THEN LogSecurityEvent(journal, u, "security_alert", "medium")
                           ELSE journal, u)
                 /\ consumed' = consumed \cup {t}
                 /\ last' = [R(u, "OK") EXCEPT !.prev = Snapshot(users[u])]
    /\ UNCHANGED <<inflight, registering, server, now, nextJti, nextTok, issued, redeemed>>
    /\ WithinBounds

\* PasswordResetService.CleanupExpiredTokens
\* an Update that clears the expiry of the expired tokens and leaves the token
ExpiredResetTokensUndated(us) ==
    [u \in DOMAIN us |->
        IF /\ us[u].password_reset_token # NoTok
           /\ us[u].password_reset_expires_at # NoTime
           /\ us[u].password_reset_expires_at < now
        THEN [us[u] EXCEPT !.password_reset_expires_at = NoTime]
        ELSE us[u]]

\* the bulk Update of PasswordResetService.CleanupExpiredTokens on table us
ExpiredResetTokensCleared(us) ==
    [u \in DOMAIN us |->
        IF /\ us[u].password_reset_token # NoTok
           /\ us[u].password_reset_expires_at # NoTime
           /\ us[u].password_reset_expires_at < now
        THEN [us[u] EXCEPT !.password_reset_token = NoTok,
                           !.password_reset_expires_at = NoTime]
        ELSE us[u]]

CleanupExpiredResetTokens ==
    /\ users' = ExpiredResetTokensCleared(users)
    /\ last' = Response("CleanupExpiredResetTokens", NoUser, "OK")
    /\ UNCHANGED <<inflight, registering, server, now, journal, nextJti, nextTok, issued, redeemed, consumed>>

----------------------------------------------------------------------------
(* EmailVerificationService (internal/service/email_verification.go) *)

UserIdInputs == {1, 2, UnknownUserId, MalformedUserId}

\* an Update that issues the token without counting the attempt
IssueVerificationTokenUncounted(row) ==
    [row EXCEPT !.email_verification_token = nextTok,
                !.email_verification_expires_at = now + EmailVerificationTokenDuration]

\* the Update shared by Send and Resend: a fresh token, expiry, one more attempt
IssueVerificationToken(row) ==
    [row EXCEPT !.email_verification_token = nextTok,
                !.email_verification_expires_at = now + EmailVerificationTokenDuration,
                !.email_verification_attempts = row.email_verification_attempts + 1]

SendVerificationEmail(userID, mailOk) ==
    LET R(code) == Response("SendVerificationEmail", userID, code) IN
    /\ IF userID = MalformedUserId
       THEN /\ last' = R("InvalidArgument")
            /\ UNCHANGED <<users, journal, nextTok>>
       ELSE IF userID \notin UserIds
       THEN /\ last' = R("NotFound")
            /\ UNCHANGED <<users, journal, nextTok>>
       ELSE IF users[userID].email_verified
       THEN /\ last' = R("FailedPrecondition")
            /\ UNCHANGED <<users, journal, nextTok>>
       ELSE IF users[userID].email_verification_attempts >= MaxEmailVerificationAttempts
       THEN /\ last' = R("ResourceExhausted")
            /\ UNCHANGED <<users, journal, nextTok>>
       ELSE /\ users' = [users EXCEPT ![userID] = IssueVerificationToken(users[userID])]
            /\ nextTok' = nextTok + 1
            /\ IF mailOk
               THEN /\ journal' = LogEmailVerificationSent(journal, userID)
                    /\ last' = R("OK")
               ELSE /\ last' = R("Internal")
                    /\ UNCHANGED journal
    /\ UNCHANGED <<inflight, registering, server, now, nextJti, issued, redeemed, consumed>>
    /\ WithinBounds

\* User.Query().Where(And(EmailVerificationTokenEQ(token), EmailVerifiedEQ(false)))
FindByVerificationToken(t) ==
    {u \in UserIds : users[u].email_verification_token = t /\ ~users[u].email_verified}

\* an Update that leaves the verification token in place
VerifyEmailUpdateKeepToken(row) ==
    [row EXCEPT !.email_verified = TRUE,
                !.email_verification_attempts = 0]

\* the Update of VerifyEmail, lines 133-138
VerifyEmailUpdate(row) ==
    [row EXCEPT !.email_verified = TRUE,
                !.email_verification_token = NoTok,
                !.email_verification_expires_at = NoTime,
                !.email_verification_attempts = 0]

\* a VerifyEmail that never looks at the expiry
VerifyEmailUnexpiring(t) ==
    LET found == FindByVerificationToken(t)
        R(uid, code) == [Response("VerifyEmail", uid, code) EXCEPT !.ch = t]
    IN
    /\ IF t = EmptyTok
       THEN /\ last' = R(NoUser, "InvalidArgument")
            /\ UNCHANGED <<users, journal, consumed>>
       ELSE IF found = {}
       THEN /\ last' = R(NoUser, "NotFound")
            /\ UNCHANGED <<users, journal, consumed>>
       ELSE LET u == CHOOSE x \in found : TRUE IN
            /\ users' = [users EXCEPT ![u] = VerifyEmailUpdate(users[u])]
            /\ journal' = LogEmailVerificationCompleted(journal, u)
            /\ consumed' = consumed \cup {t}
            /\ last' = R(u, "OK")
    /\ UNCHANGED <<inflight, registering, server, now, nextJti, nextTok, issued, redeemed>>
    /\ WithinBounds

VerifyEmail(t) ==
    LET found == FindByVerificationToken(t)
        R(uid, code) == [Response("VerifyEmail", uid, code) EXCEPT !.ch = t]
    IN
    /\ IF t = EmptyTok
       THEN /\ last' = R(NoUser, "InvalidArgument")
            /\ UNCHANGED <<users, journal, consumed>>
       ELSE IF found = {}
       THEN /\ last' = R(NoUser, "NotFound")
            /\ UNCHANGED <<users, journal, consumed>>
       ELSE LET u == CHOOSE x \in found : TRUE IN
            IF /\ users[u].email_verification_expires_at # NoTime
               /\ users[u].email_verification_expires_at < now
            THEN /\ last' = R(u, "DeadlineExceeded")
                 /\ UNCHANGED <<users, journal, consumed>>
            ELSE /\ users' = [users EXCEPT ![u] = VerifyEmailUpdate(users[u])]
                 /\ journal' = LogEmailVerificationCompleted(journal, u)
                 /\ consumed' = consumed \cup {t}
                 /\ last' = R(u, "OK")
    /\ UNCHANGED <<inflight, registering, server, now, nextJti, nextTok, issued, redeemed>>
    /\ WithinBounds

\* a resend that is never rate limited
ResendRateLimitedNever(row) == FALSE

\* "can only resend once per hour": the issue time is read back from the expiry
ResendRateLimited(row) ==
    /\ row.email_verification_expires_at # NoTime
    /\ now < row.email_verification_expires_at
                 - EmailVerificationTokenDuration + EmailVerificationResendLimit

ResendVerificationEmail(userID, mailOk) ==
    LET R(code) == Response("ResendVerificationEmail", userID, code) IN
    /\ IF userID = MalformedUserId
       THEN /\ last' = R("InvalidArgument")
            /\ UNCHANGED <<users, journal, nextTok>>
       ELSE IF userID \notin UserIds
       THEN /\ last' = R("NotFound")
            /\ UNCHANGED <<users, journal, nextTok>>
       ELSE IF users[userID].email_verified
       THEN /\ last' = R("FailedPrecondition")
            /\ UNCHANGED <<users, journal, nextTok>>
       ELSE IF ResendRateLimited(users[userID])
       THEN /\ last' = R("ResourceExhausted")
            /\ UNCHANGED <<users, journal, nextTok>>
       ELSE IF users[userID].email_verification_attempts >= MaxEmailVerificationAttempts
       THEN /\ last' = R("ResourceExhausted")
            /\ UNCHANGED <<users, journal, nextTok>>
       ELSE /\ users' = [users EXCEPT ![userID] = IssueVerificationToken(users[userID])]
            /\ nextTok' = nextTok + 1
            /\ IF mailOk
               THEN /\ journal' = LogEmailVerificationSent(journal, userID)
                    /\ last' = R("OK")
               ELSE /\ last' = R("Internal")
                    /\ UNCHANGED journal
    /\ UNCHANGED <<inflight, registering, server, now, nextJti, issued, redeemed, consumed>>
    /\ WithinBounds

\* EmailVerificationService.GetVerificationStatus: CanResend asks for
\* time.Now().After(expires_at - 24 h + 1 h)
GetVerificationStatus(userID) ==
    LET R(code) == Response("GetVerificationStatus", userID, code) IN
    /\ IF userID = MalformedUserId
       THEN last' = R("InvalidArgument")
       ELSE IF userID \notin UserIds
       THEN last' = R("NotFound")
       ELSE LET row == users[userID] IN
            last' = [R("OK") EXCEPT !.can_resend =
                        /\ ~row.email_verified
                        /\ row.email_verification_attempts < MaxEmailVerificationAttempts
                        /\ \/ row.email_verification_expires_at = NoTime
                           \/ now > row.email_verification_expires_at
                                       - EmailVerificationTokenDuration
                                       + EmailVerificationResendLimit]
    /\ UNCHANGED <<inflight, registering, server, now, users, journal, nextJti, nextTok, issued,
                   redeemed, consumed>>

\* EmailVerificationService.CleanupExpiredTokens
\* a cleanup in two statements in the wrong order: rows past their expiry lose
\* the expiry if the token is already gone, and the token otherwise
ExpiredVerificationTokensStepwise(us) ==
    [u \in DOMAIN us |->
        IF /\ us[u].email_verification_expires_at # NoTime
           /\ us[u].email_verification_expires_at < now
        THEN IF us[u].email_verification_token # NoTok
             THEN [us[u] EXCEPT !.email_verification_token = NoTok]
             ELSE [us[u] EXCEPT !.email_verification_expires_at = NoTime]
        ELSE us[u]]

\* the bulk Update of EmailVerificationService.CleanupExpiredTokens on table us
ExpiredVerificationTokensCleared(us) ==
    [u \in DOMAIN us |->
        IF /\ us[u].email_verification_token # NoTok
           /\ us[u].email_verification_expires_at # NoTime
           /\ us[u].email_verification_expires_at < now
        THEN [us[u] EXCEPT !.email_verification_token = NoTok,
                           !.email_verification_expires_at = NoTime]
        ELSE us[u]]

CleanupExpiredVerificationTokens ==
    /\ users' = ExpiredVerificationTokensCleared(users)
    /\ last' = Response("CleanupExpiredVerificationTokens", NoUser, "OK")
    /\ UNCHANGED <<inflight, registering, server, now, journal, nextJti, nextTok, issued, redeemed, consumed>>

----------------------------------------------------------------------------
(* AuthService.Register (internal/service/auth_service.go).  Each call runs  *)
(* on a goroutine of its own; the Exist query and the Create are separate    *)
(* statements, so a call is in flight between them.                          *)

\* validateRegisterRequest: ValidateEmail and ValidateUsername match the text
\* against their patterns, which accept both letter cases
validateRegisterRequest(req) ==
    /\ req.email.text \notin {"", "invalid-email"}
    /\ req.username.text \notin {"", "ab"}
    /\ req.password.text # ""

\* User.Query().Where(Or(EmailEQ(ToLower(email)), UsernameEQ(ToLower(username)))).Exist
Exists(email, username) ==
    \E u \in UserIds : \/ users[u].email = ToLower(email)
                       \/ users[u].username = ToLower(username)

\* a Create that stores the identifiers as they were typed
CreatedRowAsTyped(req) ==
    [NewRow(NoUser, TRUE, FALSE, 0) EXCEPT
        !.email = req.email,
        !.username = req.username,
        !.password_hash = HashPassword(req.password)]

\* User.Create() ... Save, lines 93-105
CreatedRow(req) ==
    [NewRow(NoUser, TRUE, FALSE, 0) EXCEPT
        !.email = ToLower(req.email),
        !.username = ToLower(req.username),
        !.password_hash = HashPassword(req.password)]

\* Register up to the existence check and the password digest (lines 62-91)
RegisterCheck(c, req) ==
    LET R(code) == [Response("Register", NoUser, code) EXCEPT
                       !.reg = req, !.pw = req.password.text]
    IN
    /\ server.phase = "serving"
    /\ \A r \in registering : r.caller # c
    /\ IF ~validateRegisterRequest(req)
       THEN /\ last' = R("InvalidArgument")
            /\ UNCHANGED registering
       ELSE IF Exists(req.email, req.username)
       THEN /\ last' = R("AlreadyExists")
            /\ UNCHANGED registering
       ELSE IF ~ValidatePassword(req.password)
       THEN /\ last' = R("InvalidArgument")
            /\ UNCHANGED registering
       ELSE /\ registering' = registering \cup {[caller |-> c, req |-> req]}
            /\ UNCHANGED last
    /\ UNCHANGED <<inflight, server, now, users, journal, nextJti, nextTok, issued, redeemed, consumed>>

\* Register from the Create on (lines 93-150): the row, the token pair, the
\* stored refresh token and the verification mail
RegisterCreate(c, mailOk) ==
    \E r \in registering :
       LET req == r.req
           id == Cardinality(UserIds) + 1
           row == CreatedRow(req)
           refreshToken == RefreshTokenOf(id, nextJti)
           withSession == [row EXCEPT
                              !.refresh_token = refreshToken,
                              !.refresh_token_expires_at = now + RefreshTokenRowDuration]
           R(uid, code) == [Response("Register", uid, code) EXCEPT
                               !.reg = req, !.pw = req.password.text]
           \* the unique indexes on email and on username refuse the row
           UniqueViolation == \E u \in UserIds : \/ users[u].email = row.email
                                                 \/ users[u].username = row.username
       IN
       /\ r.caller = c
       /\ registering' = registering \ {r}
       /\ IF UniqueViolation
          THEN /\ last' = R(NoUser, "Internal")
               /\ UNCHANGED <<users, journal, nextJti, nextTok, issued>>
          ELSE /\ users' = [u \in UserIds \cup {id} |->
                               IF u # id THEN users[u]
                               ELSE IF req.send THEN IssueVerificationToken(withSession)
                               ELSE withSession]
               /\ nextJti' = nextJti + 1
               /\ issued' = issued \cup {refreshToken}
               /\ nextTok' = IF req.send THEN nextTok + 1 ELSE nextTok
               /\ journal' = IF req.send /\ mailOk
                             THEN LogEmailVerificationSent(journal, id)
                             ELSE journal
               /\ last' = [R(id, "OK") EXCEPT !.rt = refreshToken]
       /\ UNCHANGED <<inflight, server, now, redeemed, consumed>>
       /\ WithinBounds

----------------------------------------------------------------------------
(* The authentication interceptor (internal/middleware/auth.go) *)

\* GenerateTokenPair: the access token returned together with refresh token r
PairedAccessToken(r) ==
    Jwt(r.uid, "access", r.jti - 1,
        r.exp - RefreshTokenDuration + AccessTokenDuration, AccessSecret)

\* every access token ever returned to a caller
issuedAccess == {PairedAccessToken(r) : r \in issued}

\* an access token no TokenManager signed
ForgedAccessToken == Jwt(1, "access", 0, MaxTime + 1, "attacker-secret")

\* Request metadata: md, whether the call has metadata at all; auth, whether it
\* has an "authorization" value; prefix, the first seven characters of the
\* first such value; rest, what follows them
Metadata(md, auth, prefix, rest) ==
    [md |-> md, auth |-> auth, prefix |-> prefix, rest |-> rest]

NoMetadata == Metadata(FALSE, FALSE, "", NoToken)
NoAuthorization == Metadata(TRUE, FALSE, "", NoToken)
Bearer(tok) == Metadata(TRUE, TRUE, "Bearer ", tok)

\* auth.ExtractTokenFromHeader: the value is at least seven characters long
\* and starts with "Bearer "
ExtractTokenFromHeader(h) ==
    [err |-> h.prefix # "Bearer ", token |-> h.rest]

NoContext == [err |-> TRUE, user_id |-> NoUser, role |-> ""]

\* an authenticator that trusts the claims of whatever follows "Bearer "
authenticateUnverified(h) ==
    IF ~h.md \/ ~h.auth \/ ExtractTokenFromHeader(h).err
    THEN NoContext
    ELSE LET claims == ExtractTokenFromHeader(h).token IN
         [err |-> FALSE, user_id |-> claims.uid,
          role |-> IF claims.uid \in UserIds THEN Role(claims.uid) ELSE ""]

\* an authenticator that also asks the store whether the account of the token
\* still holds a session
authenticateLiveSession(h) ==
    IF ~h.md \/ ~h.auth \/ ExtractTokenFromHeader(h).err
    THEN NoContext
    ELSE LET claims == ExtractTokenFromHeader(h).token IN
         IF ~ValidateAccessToken(claims) \/ users[claims.uid].refresh_token = NoToken
         THEN NoContext
         ELSE [err |-> FALSE, user_id |-> claims.uid, role |-> Role(claims.uid)]

\* UpdatedAuthInterceptor.authenticate: the context values it stamps, or err
authenticate(h) ==
    IF ~h.md
    THEN NoContext
    ELSE IF ~h.auth
    THEN NoContext
    ELSE IF ExtractTokenFromHeader(h).err
    THEN NoContext
    ELSE LET claims == ExtractTokenFromHeader(h).token IN
         IF ~ValidateAccessToken(claims)
         THEN NoContext
         ELSE [err |-> FALSE, user_id |-> claims.uid, role |-> Role(claims.uid)]

publicMethods ==
    {"/auth.v1.AuthService/Register", "/auth.v1.AuthService/Login",
     "/auth.v1.AuthService/RefreshToken", "/auth.v1.AuthService/VerifyEmail",
     "/auth.v1.AuthService/RequestPasswordReset", "/auth.v1.AuthService/ResetPassword",
     "/grpc.health.v1.Health/Check", "/grpc.health.v1.Health/Watch"}

\* a unary call: the method, the metadata and the request message
Call(method, h, id, pw, tok, query) ==
    [method |-> method, header |-> h, id |-> id, pw |-> pw, tok |-> tok, query |-> query]

\* the registered handler of call c, run with the context values ctx
handler(c, ctx) ==
    CASE c.method = "/auth.v1.AuthService/Login" -> Login(c.id, c.pw)
      [] c.method = "/auth.v1.AuthService/Logout" -> Logout(c.tok)
      [] c.method = "/auth.v1.AuthService/GetSecurityEvents" ->
            GetSecurityEvents(ctx, c.query)
      [] OTHER ->
            /\ last' = Response(c.method, ctx.user_id, "OK")
            /\ UNCHANGED <<inflight, registering, server, now, users, journal, nextJti, nextTok,
                           issued, redeemed, consumed>>

\* UpdatedAuthInterceptor.Unary: public methods go straight to the handler,
\* the others only with the context authenticate returns
Unary(c) ==
    IF c.method \in publicMethods
    THEN handler(c, NoContext)
    ELSE IF authenticate(c.header).err
    THEN /\ last' = [Response(c.method, NoUser, "Unauthenticated") EXCEPT
                        !.inner = "none", !.tok = c.header.rest]
         /\ UNCHANGED <<inflight, registering, server, now, users, journal, nextJti, nextTok, issued, redeemed, consumed>>
    ELSE handler(c, authenticate(c.header))

\* a role gate that lets every authenticated caller through
RequireRoleAny(roles, ctx, c) ==
    IF ctx.err
    THEN /\ last' = [Response(c.method, NoUser, "Unauthenticated") EXCEPT
                        !.inner = "none", !.tok = c.header.rest]
         /\ UNCHANGED <<inflight, registering, server, now, users, journal, nextJti, nextTok,
                        issued, redeemed, consumed>>
    ELSE handler(c, ctx)

\* the interceptor RequireRole(roles...) returns, run on call c with the
\* context values ctx: GetUserRoleFromContext finds a role only if the
\* authenticator stamped one
RequireRole(roles, ctx, c) ==
    IF ctx.err
    THEN /\ last' = [Response(c.method, NoUser, "Unauthenticated") EXCEPT
                        !.inner = "none", !.tok = c.header.rest]
         /\ UNCHANGED <<inflight, registering, server, now, users, journal, nextJti, nextTok,
                        issued, redeemed, consumed>>
    ELSE IF ctx.role \notin roles
    THEN /\ last' = [Response(c.method, NoUser, "PermissionDenied") EXCEPT
                        !.inner = "none", !.tok = c.header.rest]
         /\ UNCHANGED <<inflight, registering, server, now, users, journal, nextJti, nextTok,
                        issued, redeemed, consumed>>
    ELSE handler(c, ctx)

\* main(): grpc.ChainUnaryInterceptor and grpc.ChainStreamInterceptor, the
\* interceptors in the order they are listed, outermost first
ChainUnaryInterceptor == <<"metadata-extractor", "validator", "authenticator", "logger">>
ChainStreamInterceptor == <<"metadata-extractor", "validator", "authenticator">>

\* the interceptors of chain that run for call c, in the order they run, and
\* "handler" behind them if none turns the call away.  The validator of a
\* unary chain refuses a Login without identifier or password and the one of a
\* stream chain passes everything on; the authenticator refuses a protected
\* method without a valid access token; the others always call the next
RECURSIVE Passed(_, _, _)
Passed(chain, unary, c) ==
    LET rejects ==
            CASE Head(chain) = "validator" ->
                    /\ unary
                    /\ c.method = "/auth.v1.AuthService/Login"
                    /\ (c.id.text = "" \/ c.pw.text = "")
              [] Head(chain) = "authenticator" ->
                    c.method \notin publicMethods /\ authenticate(c.header).err
              [] OTHER -> FALSE
    IN IF chain = <<>> THEN <<"handler">>
       ELSE IF rejects THEN <<Head(chain)>>
       ELSE <<Head(chain)>> \o Passed(Tail(chain), unary, c)

\* a call served by grpc.Server through a chain: the call goes from one
\* interceptor to the next until one returns an error or the handler runs
Serve(chain, unary, c) ==
    LET passed == Passed(chain, unary, c)
        stop == passed[Len(passed)]
    IN IF stop = "handler"
       THEN handler(c, IF c.method \in publicMethods THEN NoContext
                       ELSE authenticate(c.header))
       ELSE /\ last' = [Response(c.method, NoUser,
                                 IF stop = "validator" THEN "InvalidArgument"
                                 ELSE "Unauthenticated") EXCEPT
                           !.inner = "none", !.tok = c.header.rest]
            /\ UNCHANGED <<inflight, registering, server, now, users, journal, nextJti, nextTok,
                           issued, redeemed, consumed>>

----------------------------------------------------------------------------
(* Specifications *)

\* Login requests: identifier and password
LoginRequests ==
    { <<Str("test@example.com", FALSE), TestPass>>,
      <<Str("test@example.com", TRUE), TestPass>>,
      <<Str("testuser", FALSE), NewPass>>,
      <<Str("test@example.com", FALSE), NewPass>>,
      <<Str("test@example.com", FALSE), EmptyPw>>,
      <<EmptyStr, TestPass>>,
      <<Str("inactive@example.com", FALSE), TestPass>>,
      <<Str(UnknownEmail, FALSE), TestPass>> }

\* UnlockAccount requests: the caller's role and the target id
UnlockRequests ==
    { <<"", 1>>, <<"user", 1>>, <<"manager", 1>>, <<"admin", 1>>, <<"admin", 2>>,
      <<"admin", UnknownUserId>>, <<"admin", MalformedUserId>> }

\* ChangePassword requests: the caller, the current and the new password
ChangePasswordRequests ==
    { <<NoUser, TestPass, NewPass>>, <<1, EmptyPw, NewPass>>, <<1, TestPass, WeakPass>>,
      <<1, TestPass, NewPass>>, <<1, NewPass, TestPass>> }

\* the account-protection state machine: Login and the admin unlock
LockoutNext ==
    \/ Tick
    \/ \E r \in LoginRequests : Login(r[1], r[2])
    \/ \E r \in UnlockRequests : UnlockAccount(r[1], r[2])

SpecLockout == Init /\ [][LockoutNext]_vars

\* the session: Login, refresh rotation, Logout and ChangePassword
SessionNext ==
    \/ Tick
    \/ \E p \in {TestPass, NewPass} : Login(Str("test@example.com", FALSE), p)
    \/ \E tok \in PresentedTokens : RefreshToken(tok)
    \/ \E tok \in PresentedTokens : Logout(tok)
    \/ \E r \in ChangePasswordRequests : ChangePassword(r[1], r[2], r[3])

SpecSession == Init /\ [][SessionNext]_vars

\* the password-reset engine
ResetNext ==
    \/ Tick
    \/ \E e \in Addresses, mailOk \in BOOLEAN : RequestPasswordReset(e, mailOk)
    \/ \E t \in ChallengeInputs : VerifyPasswordResetToken(t)
    \/ \E t \in ChallengeInputs, new \in {EmptyPw, WeakPass, NewPass}, mailOk \in BOOLEAN :
          ResetPassword(t, new, mailOk)
    \/ CleanupExpiredResetTokens

InitReset == \E a \in {0, MaxPasswordResetAttempts - 1} : InitWith(a)

SpecReset == InitReset /\ [][ResetNext]_vars

\* account recovery: a password reset against the logins and sessions of the account
RecoveryNext ==
    \/ Tick
    \/ \E p \in {TestPass, NewPass} : Login(Str("test@example.com", FALSE), p)
    \/ \E tok \in issued : RefreshToken(tok)
    \/ RequestPasswordReset(Str("test@example.com", FALSE), TRUE)
    \/ \E t \in 1 .. MaxChallenges : ResetPassword(t, NewPass, TRUE)

SpecRecovery == Init /\ [][RecoveryNext]_vars

\* the email-verification engine
VerifyNext ==
    \/ Tick
    \/ \E u \in UserIdInputs, mailOk \in BOOLEAN : SendVerificationEmail(u, mailOk)
    \/ \E u \in UserIdInputs, mailOk \in BOOLEAN : ResendVerificationEmail(u, mailOk)
    \/ \E t \in ChallengeInputs : VerifyEmail(t)
    \/ CleanupExpiredVerificationTokens

\* account 1 has been sent no verification mail yet, or all but one of the mails
\* it may be sent, whose tokens have expired and been cleaned up
InitVerify ==
    /\ \E a \in {0, MaxEmailVerificationAttempts - 1} :
          users = [u \in Fixtures |->
                     [NewRow(u, u # 2, u = 3, 0) EXCEPT
                         !.email_verification_attempts = IF u = 1 THEN a ELSE 0]]
    /\ now = 0
    /\ journal = <<>>
    /\ nextJti = 1
    /\ nextTok = 1
    /\ issued = {}
    /\ redeemed = {}
    /\ consumed = {}
    /\ registering = {}
    /\ inflight = {}
    /\ server = Serving
    /\ last = Response("none", NoUser, "OK")

SpecVerify == InitVerify /\ [][VerifyNext]_vars

\* the verification engine and the status query
SpecStatus ==
    InitVerify /\ [][\/ VerifyNext
                     \/ \E u \in UserIdInputs : GetVerificationStatus(u)]_vars

\* the Register calls made: a new identity typed in lower and in mixed case,
\* two more that share its username or its email, the test user's email and
\* username, malformed identifiers and a weak password
RegisterRequests ==
    LET RegisterRequest(email, username, password, sendVerification) ==
            [email |-> email, username |-> username, password |-> password,
             send |-> sendVerification]
    IN
    { RegisterRequest(Str("newuser@example.com", c), Str("newuser", c), TestPass, s) :
         c \in BOOLEAN, s \in BOOLEAN }
    \cup { RegisterRequest(Str("other@example.com", FALSE), Str("newuser", FALSE), TestPass, FALSE),
           RegisterRequest(Str("newuser@example.com", FALSE), Str("other", FALSE), TestPass, FALSE),
           RegisterRequest(Str("test@example.com", TRUE), Str("newuser2", FALSE), TestPass, FALSE),
           RegisterRequest(Str("new3@example.com", FALSE), Str("testuser", FALSE), TestPass, FALSE),
           RegisterRequest(Str("invalid-email", FALSE), Str("newuser3", FALSE), TestPass, FALSE),
           RegisterRequest(Str("new4@example.com", FALSE), Str("ab", FALSE), TestPass, FALSE),
           RegisterRequest(Str("new5@example.com", FALSE), Str("newuser5", FALSE), WeakPass, FALSE) }

\* registration: Register calls on two goroutines and the logins that follow
RegisterNext ==
    \/ \E c \in {"a", "b"}, req \in RegisterRequests : RegisterCheck(c, req)
    \/ \E c \in {"a", "b"}, mailOk \in BOOLEAN : RegisterCreate(c, mailOk)
    \/ \E id \in {"newuser@example.com", "newuser", "other"}, c \in BOOLEAN :
          Login(Str(id, c), TestPass)

SpecRegister == Init /\ [][RegisterNext]_vars

\* the metadata callers present: none, no authorization value, "Bearer " before
\* each kind of token, and an access token behind another prefix or none
Headers ==
    {NoMetadata, NoAuthorization}
    \cup {Bearer(t) : t \in issuedAccess \cup issued
                              \cup {EmptyToken, GarbageToken, ForgedAccessToken}}
    \cup {Metadata(TRUE, TRUE, p, t) : p \in {"bearer ", "eyJhbGc"}, t \in issuedAccess}

\* the refresh tokens the accounts hold
StoredTokens == {users[u].refresh_token : u \in UserIds} \ {NoToken}

\* the calls that reach the interceptor
GatewayCalls ==
    {Call("/auth.v1.AuthService/Login", NoMetadata, Str("test@example.com", FALSE),
          TestPass, NoToken, NoQuery)}
    \cup {Call("/auth.v1.AuthService/Logout", h, EmptyStr, EmptyPw, t, NoQuery) :
             h \in Headers, t \in StoredTokens}
    \cup {Call("/auth.v1.AuthService/GetSecurityEvents", h, EmptyStr, EmptyPw, NoToken,
               NoQuery) : h \in Headers}

\* the streams opened: WatchTasks under every header, and the health Watch
StreamCalls ==
    {Call("/task.v1.TaskService/WatchTasks", h, EmptyStr, EmptyPw, NoToken, NoQuery) :
        h \in Headers}
    \cup {Call("/grpc.health.v1.Health/Watch", NoMetadata, EmptyStr, EmptyPw, NoToken,
               NoQuery)}

\* the server behind both interceptor chains: the unary calls of the gateway
\* and a Login without a password, and the streams
ChainNext ==
    \/ Tick
    \/ \E c \in GatewayCalls
               \cup {Call("/auth.v1.AuthService/Login", NoMetadata,
                          Str("test@example.com", FALSE), EmptyPw, NoToken, NoQuery)} :
          Serve(ChainUnaryInterceptor, TRUE, c)
    \/ \E c \in StreamCalls : Serve(ChainStreamInterceptor, FALSE, c)

SpecChain == Init /\ [][ChainNext]_vars

\* the calls that meet a role gate: GetSecurityEvents under every header
RoleCalls == {c \in GatewayCalls : c.method = "/auth.v1.AuthService/GetSecurityEvents"}

\* calls behind a role gate: the test user and the admin log in, and the
\* calls meet a gate for admins and a gate for users and managers
SpecRole ==
    Init /\ [][\/ Tick
               \/ \E e \in {"test@example.com", "admin@example.com"} :
                     Login(Str(e, FALSE), TestPass)
               \/ \E roles \in {{"admin"}, {"user", "manager"}}, c \in RoleCalls :
                     RequireRole(roles, authenticate(c.header), c)]_vars

\* the server behind its interceptor
GatewayNext ==
    \/ Tick
    \/ \E c \in GatewayCalls : Unary(c)

SpecGateway == Init /\ [][GatewayNext]_vars

\* the clock advances by most of a week
LongTick ==
    /\ now + RefreshTokenDuration - 1 <= 4 * MaxTime
    /\ now' = now + RefreshTokenDuration - 1
    /\ UNCHANGED <<users, journal, nextJti, nextTok, issued, redeemed, consumed,
                   inflight, registering, server, last>>

\* the refresh token of a session of account u opened at time 0 by a server
\* whose JWT_REFRESH_TOKEN_DURATION exceeds the seven days Login gives the row
LongLivedToken(u) == Jwt(u, "refresh", 0, 4 * MaxTime + 1, RefreshSecret)

\* accounts 1 and 3 each hold such a session
InitSessions ==
    /\ now = 0
    /\ users = [u \in Fixtures |->
                   IF u = 2 THEN NewRow(u, FALSE, FALSE, 0)
                   ELSE [NewRow(u, TRUE, u = 3, 0) EXCEPT
                            !.refresh_token = LongLivedToken(u),
                            !.refresh_token_expires_at = RefreshTokenRowDuration,
                            !.last_login = 0]]
    /\ journal = <<>>
    /\ nextJti = 1
    /\ nextTok = 1
    /\ issued = {LongLivedToken(1), LongLivedToken(3)}
    /\ redeemed = {}
    /\ consumed = {}
    /\ registering = {}
    /\ inflight = {}
    /\ server = Serving
    /\ last = Response("none", NoUser, "OK")

\* sessions growing old: the clock, Login and RefreshToken
ExpiryNext ==
    \/ Tick
    \/ LongTick
    \/ Login(Str("test@example.com", FALSE), TestPass)
    \/ \E tok \in issued : RefreshToken(tok)

SpecExpiry == InitSessions /\ [][ExpiryNext]_vars

\* the account's calls on two goroutines: Login with the first and the
\* second password, RefreshToken with every token handed out to it, each in its two
\* steps, and a ChangePassword in between
RaceNext ==
    \/ \E c \in {"a", "b"}, p \in {TestPass, NewPass} :
          LoginLookup(c, Str("test@example.com", FALSE), p)
    \/ \E c \in {"a", "b"} : LoginFinish(c)
    \/ \E c \in {"a", "b"}, tok \in {t \in issued : t.uid = 1} :
          RefreshTokenLookup(c, tok)
    \/ \E c \in {"a", "b"} : RefreshTokenFinish(c)
    \/ ChangePassword(1, TestPass, NewPass)

SpecRace == InitSessions /\ [][RaceNext]_vars

\* account 1 made its fifth reset request an hour ago: its token, number 1,
\* expires now
InitCapped ==
    /\ now = 0
    /\ users = [u \in Fixtures |->
                   IF u = 1
                   THEN [NewRow(u, TRUE, FALSE, MaxPasswordResetAttempts) EXCEPT
                            !.password_reset_token = 1,
                            !.password_reset_expires_at = 0]
                   ELSE NewRow(u, u # 2, u = 3, 0)]
    /\ journal = <<>>
    /\ nextJti = 1
    /\ nextTok = 2
    /\ issued = {}
    /\ redeemed = {}
    /\ consumed = {}
    /\ registering = {}
    /\ inflight = {}
    /\ server = Serving
    /\ last = Response("none", NoUser, "OK")

\* the reset engine of an account at its attempt cap, with the periodic cleanup
CapNext ==
    \/ Tick
    \/ \E mailOk \in BOOLEAN : RequestPasswordReset(Str("test@example.com", FALSE), mailOk)
    \/ \E t \in 1 .. (MaxChallenges + 1) : ResetPassword(t, NewPass, TRUE)
    \/ CleanupExpiredResetTokens

SpecResetCap == InitCapped /\ [][CapNext]_vars

\* a refresh token of account 1 that expired before the clock started
StaleToken == Jwt(1, "refresh", 0, 0, RefreshSecret)

\* what callers present to Logout: every token of PresentedTokens, issued
\* access tokens and an expired refresh token
LogoutTokens == PresentedTokens \cup issuedAccess \cup {StaleToken}

\* sessions opened by Login and closed by Logout
LogoutNext ==
    \/ Tick
    \/ \E e \in {"test@example.com", "admin@example.com"} : Login(Str(e, FALSE), TestPass)
    \/ \E tok \in LogoutTokens : Logout(tok)

SpecLogout == Init /\ [][LogoutNext]_vars

\* GetSecurityEvents requests: a kind filter or none, date bounds or none, the
\* default and a one-row page, the first and a later offset
EventsRequests ==
    {EventsRequest(k, f, t, n, o) :
        k \in {"", "login_success"}, f \in {NoTime, 1}, t \in {NoTime, 2},
        n \in {0, 1}, o \in {0, 1}}

\* the journal as Login fills it for two accounts, and its readers
EventsNext ==
    \/ \E r \in {<<"test@example.com", TestPass>>, <<"test@example.com", NewPass>>,
                  <<"admin@example.com", TestPass>>} : Login(Str(r[1], FALSE), r[2])
    \/ \E u \in UserIds, req \in EventsRequests :
          GetSecurityEvents([err |-> FALSE, user_id |-> u, role |-> Role(u)], req)

SpecEvents == Init /\ [][EventsNext]_vars

\* the lockout scenario: the test user logs in with a wrong and with the right
\* password, by email or username in either letter case, while the clock runs
SpecScenario ==
    Init /\ [][\/ Tick
               \/ \E id \in {"test@example.com", "testuser"}, c \in BOOLEAN,
                     p \in {TestPass, NewPass} : Login(Str(id, c), p)]_vars

\* both token engines over a long clock: tokens are issued by Register, Send,
\* Resend and reset requests, redeemed, left to expire and cleaned up
TokensNext ==
    \/ LongTick
    \/ \E req \in {r \in RegisterRequests : r.email.cased} : RegisterCheck("a", req)
    \/ RegisterCreate("a", TRUE)
    \/ SendVerificationEmail(1, TRUE)
    \/ ResendVerificationEmail(1, TRUE)
    \/ \E t \in 1 .. MaxChallenges : VerifyEmail(t)
    \/ RequestPasswordReset(Str("test@example.com", FALSE), TRUE)
    \/ \E t \in 1 .. MaxChallenges : ResetPassword(t, NewPass, TRUE)
    \/ CleanupExpiredVerificationTokens
    \/ CleanupExpiredResetTokens

SpecTokens == Init /\ [][TokensNext]_vars

\* main() from the signal on.  <-quit: a SIGINT or SIGTERM starts the shutdown
\* and GracefulStop takes no new call; a second of the WithTimeout context
\* passes; GracefulStop returns once no call is in flight and main returns;
\* at the deadline ctx.Done fires, Stop drops the calls in flight and main
\* returns
main ==
    /\ \/ /\ server.phase = "serving"
          /\ server' = [phase |-> "stopping", waited |-> 0]
          /\ UNCHANGED <<registering, inflight>>
       \/ /\ server.phase = "stopping"
          /\ server.waited < ShutdownTimeout
          /\ server' = [server EXCEPT !.waited = @ + 1]
          /\ UNCHANGED <<registering, inflight>>
       \/ /\ server.phase = "stopping"
          /\ registering = {} /\ inflight = {}
          /\ server' = [server EXCEPT !.phase = "exited"]
          /\ UNCHANGED <<registering, inflight>>
       \/ /\ server.phase = "stopping"
          /\ server.waited = ShutdownTimeout
          /\ server' = [server EXCEPT !.phase = "exited"]
          /\ registering' = {} /\ inflight' = {}
    /\ last' = Response("main", NoUser, "OK")
    /\ UNCHANGED <<now, users, journal, nextJti, nextTok, issued, redeemed, consumed>>

\* startCleanupJob, one round of its loop: main hands it context.Background(),
\* whose Done channel never closes, so the select takes ticker.C whenever the
\* ticker fires for as long as the process lives; the round clears the
\* expired verification tokens, then the expired reset tokens
startCleanupJob ==
    /\ server.phase # "exited"
    /\ users' = ExpiredResetTokensCleared(ExpiredVerificationTokensCleared(users))
    /\ last' = Response("startCleanupJob", NoUser, "OK")
    /\ UNCHANGED <<inflight, registering, server, now, journal, nextJti, nextTok, issued, redeemed, consumed>>

\* the server's life: Register calls in flight, the cleanup job, the shutdown
SpecShutdown ==
    Init /\ [][\/ \E c \in {"a", "b"}, req \in RegisterRequests : RegisterCheck(c, req)
               \/ \E c \in {"a", "b"} : RegisterCreate(c, TRUE)
               \/ startCleanupJob
               \/ main]_vars

\* the journal's writers: Login, UnlockAccount and SendVerificationEmail
\* append, ResolveSecurityEvent updates an entry or finds none
JournalNext ==
    \/ \E r \in {<<"test@example.com", TestPass>>, <<"test@example.com", NewPass>>,
                  <<"admin@example.com", TestPass>>} : Login(Str(r[1], FALSE), r[2])
    \/ UnlockAccount("admin", 1)
    \/ SendVerificationEmail(1, TRUE)
    \/ \E eventID \in 1 .. MaxJournal + 1 : ResolveSecurityEvent(eventID)

SpecJournal == Init /\ [][JournalNext]_vars

\* every handler together
Next ==
    \/ RaceNext
    \/ \E u \in UserIdInputs : GetVerificationStatus(u)
    \/ \E roles \in {{"admin"}, {"user", "manager"}}, c \in RoleCalls :
          RequireRole(roles, authenticate(c.header), c)
    \/ ChainNext
    \/ main \/ startCleanupJob
    \/ JournalNext
    \/ RegisterNext
    \/ TokensNext
    \/ LockoutNext \/ SessionNext \/ ResetNext \/ RecoveryNext \/ VerifyNext
    \/ GatewayNext \/ EventsNext \/ LogoutNext \/ ExpiryNext \/ CapNext

Spec == Init /\ [][Next]_vars

----------------------------------------------------------------------------
(* Account protection: lockout, failed-login accounting, unlock *)

\* a Login request that passes the handler's argument validation
WellFormedLogin(r) == r[1].text # "" /\ r[2].text # ""

\* the account a Login request names, if any
LoginTarget(r) == FindByLoginId(ToLower(r[1]))

\* the lockout expiry of the row is set and lies in the future
LockPending(row) == row.account_locked_until # NoTime /\ row.account_locked_until > now

\* C1: whenever an account's lockout expiry is set and lies in the future, every
\* Login for that account (identifier and password both supplied) is refused with
\* permission-denied and locked=true, whether or not the password is correct, and
\* the store is left as it was.
C1_LockedLoginRefused ==
    [][\A r \in LoginRequests :
         (/\ WellFormedLogin(r)
          /\ \E u \in LoginTarget(r) : LockPending(users[u])
          /\ Login(r[1], r[2]))
         => (/\ last'.op = "Login"
             /\ last'.code = "PermissionDenied"
             /\ last'.locked
             /\ users' = users
             /\ issued' = issued)]_vars

\* C1 witness: a Login with the account's correct password was refused as locked
\* while the lock was still pending
C1_Witness ==
    /\ last.op = "Login" /\ last.uid = 1
    /\ last.code = "PermissionDenied" /\ last.locked
    /\ ComparePassword(users[1].password_hash, [text |-> last.pw])
    /\ LockPending(users[1])

\* C2: a Login with a wrong password on an unlocked, active account raises the
\* failed-login counter by exactly one; if the new counter reaches
\* max-login-attempts the lockout expiry becomes now + lockout-duration and the
\* call returns permission-denied with locked=true; otherwise the call returns
\* unauthenticated and the account stays unlocked.
C2_WrongPasswordAccounting ==
    [][\A r \in LoginRequests : \A u \in LoginTarget(r) :
         (/\ WellFormedLogin(r)
          /\ ~LockPending(users[u])
          /\ users[u].is_active
          /\ ~ComparePassword(users[u].password_hash, r[2])
          /\ Login(r[1], r[2]))
         => (/\ users'[u].failed_login_attempts = users[u].failed_login_attempts + 1
             /\ IF users'[u].failed_login_attempts >= MaxLoginAttempts
                THEN /\ users'[u].account_locked_until = now + AccountLockoutDuration
                     /\ last'.code = "PermissionDenied"
                     /\ last'.locked
                ELSE /\ last'.code = "Unauthenticated"
                     /\ ~last'.locked
                     /\ users'[u].account_locked_until = users[u].account_locked_until
                     /\ ~LockPending(users'[u]))]_vars

\* C2 witness: the wrong password that reached the threshold locked the account
C2_Witness ==
    /\ last.op = "Login" /\ last.uid = 1
    /\ last.code = "PermissionDenied" /\ last.locked
    /\ ~ComparePassword(users[1].password_hash, [text |-> last.pw])
    /\ users[1].failed_login_attempts = MaxLoginAttempts
    /\ users[1].account_locked_until = now + AccountLockoutDuration

\* the journal kinds a Login may leave
LoginKinds == {"login_success", "login_failed", "account_locked"}

\* C6: for every Login outcome (success, unknown identifier, wrong password below
\* the threshold, wrong password that triggers the lock, refusal because already
\* locked, refusal because inactive), by the time the handler returns the journal
\* holds a new entry for the call whose kind is login-success, login-failed or
\* account-locked.
C6_EveryLoginJournalled ==
    [][\A r \in LoginRequests :
         (WellFormedLogin(r) /\ Login(r[1], r[2]))
         => (/\ Len(journal') = Len(journal) + 1
             /\ journal'[Len(journal')].event_type \in LoginKinds)]_vars

\* C10: UnlockAccount changes state only for admin callers: with any other role,
\* or none, it returns permission-denied and leaves the store as it was; for an
\* admin and an existing target it sets the target's failed-login counter to zero
\* and its lockout expiry to null, and the next Login of that target, if the
\* account is active and the password is the correct one, succeeds.
C10_UnlockAdminOnly ==
    [][/\ \A r \in UnlockRequests :
            UnlockAccount(r[1], r[2])
            => IF r[1] # "admin"
               THEN last'.code = "PermissionDenied" /\ users' = users
               ELSE r[2] \in UserIds
                    => (/\ last'.code = "OK"
                        /\ users'[r[2]].failed_login_attempts = 0
                        /\ users'[r[2]].account_locked_until = NoTime)
       /\ \A r \in LoginRequests : \A u \in LoginTarget(r) :
            (/\ last.op = "UnlockAccount" /\ last.code = "OK" /\ last.uid = u
             /\ users[u].is_active
             /\ WellFormedLogin(r)
             /\ ComparePassword(users[u].password_hash, r[2])
             /\ Login(r[1], r[2]))
            => (last'.code = "OK" /\ last'.rt # NoToken)]_vars

\* C10 witness: the account was locked, an admin unlocked it while the lock was
\* still pending, and the Login with the correct password then succeeded
C10_Witness ==
    /\ now = 0
    /\ Len(journal) = 3
    /\ \A i \in 1 .. 3 : journal[i].user_id = 1
    /\ journal[1].event_type = "account_locked"
    /\ journal[2].event_type = "account_unlocked"
    /\ journal[3].event_type = "login_success"
    /\ last.op = "Login" /\ last.code = "OK" /\ last.uid = 1

----------------------------------------------------------------------------
(* Sessions: refresh rotation and revocation *)

\* C3: refresh rotation: once RefreshToken(R1) has succeeded and returned a new
\* pair, R1 is never again the stored refresh token of any account, and every
\* later RefreshToken(R1) returns unauthenticated and mints nothing.
C3_RefreshRotation ==
    [][\A tok \in redeemed :
         /\ \A u \in UserIds : users[u].refresh_token # tok
         /\ RefreshToken(tok)
            => (/\ last'.code = "Unauthenticated"
                /\ last'.rt = NoToken
                /\ issued' = issued)]_vars

\* C3 witness: a redeemed refresh token, still within its lifetime, was presented
\* again and refused
C3_Witness ==
    /\ last.op = "RefreshToken"
    /\ last.tok \in redeemed
    /\ ValidateRefreshToken(last.tok)
    /\ last.code = "Unauthenticated"

\* C5: every ChangePassword that succeeds leaves the account's stored refresh
\* token (and its expiry) empty, and directly after it every refresh token issued
\* so far, the one valid before the change included, fails RefreshToken with
\* unauthenticated.
C5_ChangePasswordRevokes ==
    [][/\ \A r \in ChangePasswordRequests :
            (ChangePassword(r[1], r[2], r[3]) /\ last'.code = "OK")
            => (/\ users'[r[1]].refresh_token = NoToken
                /\ users'[r[1]].refresh_token_expires_at = NoTime)
       /\ \A tok \in issued :
            (/\ last.op = "ChangePassword" /\ last.code = "OK"
             /\ RefreshToken(tok))
            => last'.code = "Unauthenticated"]_vars

\* C5 witness: a password change succeeded on an account whose stored refresh
\* token was valid until then
C5_Witness ==
    /\ last.op = "ChangePassword" /\ last.code = "OK" /\ last.uid = 1
    /\ last.prev.refresh_token \in issued
    /\ ValidateRefreshToken(last.prev.refresh_token)
    /\ users[1].refresh_token = NoToken

----------------------------------------------------------------------------
(* Challenge flows: password reset and email verification *)

\* C4: every ResetPassword that succeeds leaves the account's failed-login counter
\* zero, its lockout expiry null and its stored refresh token (and expiry) empty,
\* and directly after it every refresh token issued before the reset fails
\* RefreshToken with unauthenticated.
C4_ResetClearsProtection ==
    [][/\ \A t \in ChallengeInputs :
            (ResetPassword(t, NewPass, TRUE) /\ last'.code = "OK")
            => (/\ last'.uid \in UserIds
                /\ users'[last'.uid].failed_login_attempts = 0
                /\ users'[last'.uid].account_locked_until = NoTime
                /\ users'[last'.uid].refresh_token = NoToken
                /\ users'[last'.uid].refresh_token_expires_at = NoTime)
       /\ \A tok \in issued :
            (/\ last.op = "ResetPassword" /\ last.code = "OK"
             /\ RefreshToken(tok))
            => last'.code = "Unauthenticated"]_vars

\* C4 witness: the reset succeeded on an account that had failed logins on its
\* counter and a live session
C4_Witness ==
    /\ last.op = "ResetPassword" /\ last.code = "OK" /\ last.uid = 1
    /\ last.prev.failed_login_attempts > 0
    /\ last.prev.refresh_token \in issued
    /\ ValidateRefreshToken(last.prev.refresh_token)
    /\ users[1].failed_login_attempts = 0
    /\ users[1].refresh_token = NoToken

\* C7: RequestPasswordReset never reveals account existence: whatever the address
\* (no active account, or one that is fresh, rate-limited, at its attempt cap, or
\* whose mail cannot be delivered) the caller gets success and an empty response.
C7_ResetRequestUniform ==
    last.op = "RequestPasswordReset"
    => last = [Response("RequestPasswordReset", last.uid, "OK") EXCEPT
                  !.inner = last.inner]

\* C7 witness: a request for an account at its attempt cap, which the service
\* refused, was answered with success
C7_Witness ==
    /\ last.op = "RequestPasswordReset" /\ last.uid = 1
    /\ last.inner = "ResourceExhausted"
    /\ last.code = "OK"
    /\ users[1].password_reset_attempts >= MaxPasswordResetAttempts
    /\ now >= users[1].password_reset_expires_at - PasswordResetTokenDuration
                 + PasswordResetRateLimit

\* the password is non-empty and passes the strength policy
WellFormedPassword(p) == p.text # "" /\ ValidatePassword(p)

\* C9: a password-reset token is single-use: once ResetPassword(T, new) has
\* succeeded, every later VerifyPasswordResetToken(T), and every later
\* ResetPassword(T, new') with a password that passes validation, returns not-found
\* and changes no account, so one issued token changes the password at most once.
C9_ResetTokenSingleUse ==
    [][\A t \in consumed :
         /\ VerifyPasswordResetToken(t) => last'.code = "NotFound"
         /\ \A new \in {p \in Passwords : WellFormedPassword(p)}, mailOk \in BOOLEAN :
               ResetPassword(t, new, mailOk)
               => (last'.code = "NotFound" /\ users' = users)]_vars

\* C9 witness: a consumed reset token was presented again with a good password
\* and was not found
C9_Witness ==
    /\ last.op = "ResetPassword"
    /\ last.ch \in consumed
    /\ last.pw = NewPass.text
    /\ last.code = "NotFound"

\* the verification token of the row has not expired
VerificationPending(row) ==
    ~(row.email_verification_expires_at # NoTime /\ row.email_verification_expires_at < now)

\* C8: an email-verification token is single-use: VerifyEmail(T) with an
\* unexpired pending token T succeeds and marks the account verified with token
\* and expiry cleared; every later VerifyEmail(T) returns not-found, and no
\* step of the verification engine makes a verified account unverified.
C8_VerificationTokenSingleUse ==
    [][/\ \A t \in ChallengeInputs \ {EmptyTok} : \A u \in FindByVerificationToken(t) :
            (VerificationPending(users[u]) /\ VerifyEmail(t))
            => (/\ last'.code = "OK"
                /\ users'[u].email_verified
                /\ users'[u].email_verification_token = NoTok
                /\ users'[u].email_verification_expires_at = NoTime)
       /\ \A t \in consumed :
            VerifyEmail(t) => (last'.code = "NotFound" /\ users' = users)
       /\ \A u \in UserIds : users[u].email_verified => users'[u].email_verified]_vars

\* C8 witness: a token that had verified its account was presented again and was
\* not found, the account still verified
C8_Witness ==
    /\ last.op = "VerifyEmail"
    /\ last.ch \in consumed
    /\ last.code = "NotFound"
    /\ users[1].email_verified

----------------------------------------------------------------------------
(* The interceptor and the token kinds *)

\* the metadata carries "authorization: Bearer <token>" and the token
\* validates as an access token
BearsAccessToken(h) ==
    h.md /\ h.auth /\ h.prefix = "Bearer " /\ ValidateAccessToken(h.rest)

\* C11: a call of a method outside the public allow-list whose metadata does
\* not carry "authorization: Bearer <token>" with a token that validates as an
\* access token is answered Unauthenticated by the interceptor, and its handler
\* does not run: no handler status is recorded and the store, the journal and
\* the issued tokens are as before.
C11_ProtectedMethodsNeedAccessToken ==
    [][\A c \in GatewayCalls :
         (/\ c.method \notin publicMethods
          /\ ~BearsAccessToken(c.header)
          /\ Unary(c))
         => (/\ last'.op = c.method
             /\ last'.code = "Unauthenticated"
             /\ last'.inner = "none"
             /\ UNCHANGED <<users, journal, nextJti, nextTok, issued, redeemed, consumed>>)]_vars

\* a protected method was called with "Bearer " and the live refresh token of
\* a session, and the interceptor turned the call away
C11_Witness ==
    /\ last.op \notin publicMethods
    /\ last.inner = "none"
    /\ last.code = "Unauthenticated"
    /\ last.tok \in issued
    /\ ValidateRefreshToken(last.tok)
    /\ users[last.tok.uid].refresh_token = last.tok

\* C12: token kind discipline.  No access token the server has issued passes
\* ValidateRefreshToken and no refresh token it has issued passes
\* ValidateAccessToken, at any time.  The same holds of the validator whatever
\* secrets the TokenManager was built with, also when both secrets are one
\* string (config.Load takes both from JWT_SECRET when only that is set): for
\* every account and every expiry still ahead, a token of one kind signed with
\* secret k fails validation as the other kind under k.
C12_TokenKindDiscipline ==
    /\ \A a \in issuedAccess : ~ValidateRefreshToken(a)
    /\ \A r \in issued : ~ValidateAccessToken(r)
    /\ \A k \in {AccessSecret, RefreshSecret}, u \in UserIds,
          e \in (now + 1) .. (MaxTime + RefreshTokenDuration) :
          /\ ~validateToken(Jwt(u, "access", 1, e, k), "refresh", k)
          /\ ~validateToken(Jwt(u, "refresh", 2, e, k), "access", k)

\* time has passed since a Login, and both tokens of its pair are still
\* accepted, each by its own validator
C12_Witness ==
    /\ now > 0
    /\ \E r \in issued :
          /\ ValidateRefreshToken(r)
          /\ ValidateAccessToken(PairedAccessToken(r))

----------------------------------------------------------------------------
(* Reading the journal *)

\* the positions of the journal a request's date bounds select
InDateRange(req) ==
    { i \in 1 .. Len(journal) :
        /\ req.from_date # NoTime => i > req.from_date
        /\ req.to_date # NoTime => i <= req.to_date }

\* C13: when a caller whose role is not admin gets an answer from
\* GetSecurityEvents, every entry of the page carries the caller's own account
\* id, and the total count is the number of the caller's own entries that
\* match the kind filter and the date range, whatever the filter, the range,
\* the page size and the page offset.
C13_OwnEventsOnly ==
    (last.op = "GetSecurityEvents" /\ last.code = "OK" /\ Role(last.uid) # "admin")
    => /\ \A i \in 1 .. Len(last.events) : last.events[i].user_id = last.uid
       /\ last.total =
            Cardinality({ i \in InDateRange(last.query) :
                            /\ journal[i].user_id = last.uid
                            /\ last.query.event_type # ""
                                  => journal[i].event_type = last.query.event_type })

\* a non-admin caller was shown entries of its own while the date range it
\* asked for also holds an entry of another account
C13_Witness ==
    /\ last.op = "GetSecurityEvents"
    /\ last.code = "OK"
    /\ Role(last.uid) # "admin"
    /\ Len(last.events) > 0
    /\ \E i \in InDateRange(last.query) : journal[i].user_id # last.uid

----------------------------------------------------------------------------
(* Logout and Login outcomes *)

\* C14: Logout always answers OK.  With a token that is empty, not a JWT,
\* signed with another secret, expired or an access token it leaves every
\* account as it was; with a token that validates as a refresh token it clears
\* the stored refresh token and its expiry of the token's account and nothing
\* else.
C14_LogoutAlwaysSucceeds ==
    [][\A tok \in LogoutTokens :
         Logout(tok)
         => (/\ last'.op = "Logout"
             /\ last'.code = "OK"
             /\ users' = IF ValidateRefreshToken(tok)
                         THEN [users EXCEPT ![tok.uid].refresh_token = NoToken,
                                            ![tok.uid].refresh_token_expires_at = NoTime]
                         ELSE users
             /\ UNCHANGED <<journal, issued, redeemed, consumed>>)]_vars

\* the last call was a Logout, and account 1, which had logged in and still
\* has the time of that login, holds no refresh token and no expiry any more
C14_Witness ==
    /\ last.op = "Logout"
    /\ last.code = "OK"
    /\ users[1].last_login # NoTime
    /\ users[1].refresh_token = NoToken
    /\ users[1].refresh_token_expires_at = NoTime
    /\ \E r \in issued : r.uid = 1 /\ ValidateRefreshToken(r)

\* C15: a Login that passes the handler's argument check, names an active
\* account whose lock is null or no longer ahead of the clock, and gives the
\* account's password succeeds: the answer is OK with a refresh token, and
\* afterwards the account's failure counter is 0, its lock is null and its
\* stored refresh token is the returned one.
C15_LoginSucceeds ==
    [][\A r \in LoginRequests : \A u \in LoginTarget(r) :
         (/\ WellFormedLogin(r)
          /\ users[u].is_active
          /\ ~LockPending(users[u])
          /\ ComparePassword(users[u].password_hash, r[2])
          /\ Login(r[1], r[2]))
         => (/\ last'.op = "Login"
             /\ last'.code = "OK"
             /\ ~last'.locked
             /\ last'.rt # NoToken
             /\ users'[u].refresh_token = last'.rt
             /\ users'[u].failed_login_attempts = 0
             /\ users'[u].account_locked_until = NoTime)]_vars

\* a Login succeeded on an account that had been locked and that no admin
\* unlocked: the lock had run out
C15_Witness ==
    /\ last.op = "Login"
    /\ last.code = "OK"
    /\ users[last.uid].refresh_token = last.rt
    /\ users[last.uid].account_locked_until = NoTime
    /\ \E i \in 1 .. Len(journal) :
          journal[i].event_type = "account_locked" /\ journal[i].user_id = last.uid
    /\ \A i \in 1 .. Len(journal) : journal[i].event_type # "account_unlocked"

----------------------------------------------------------------------------
(* Sessions growing old *)

\* C16: RefreshToken, presented with the very token an active account holds,
\* never succeeds while the account's stored expiry is behind the clock or its
\* last login is more than SessionTimeoutDuration old: the answer is
\* Unauthenticated and no token is issued.
C16_RefreshRefusedWhenStale ==
    [][\A tok \in issued : \A u \in FindByRefreshToken(tok) :
         (/\ \/ (users[u].refresh_token_expires_at # NoTime
                   /\ users[u].refresh_token_expires_at < now)
              \/ (users[u].last_login # NoTime
                   /\ now - users[u].last_login > SessionTimeoutDuration)
          /\ RefreshToken(tok))
         => (/\ last'.op = "RefreshToken"
             /\ last'.code = "Unauthenticated"
             /\ last'.rt = NoToken
             /\ issued' = issued
             /\ users'[u].refresh_token \in {tok, NoToken})]_vars

\* a correctly signed, unexpired token equal to the stored one was refused
\* because the stored expiry had passed, and the session of another account
\* has been closed because its login was too old
C16_Witness ==
    /\ last.op = "RefreshToken"
    /\ last.code = "Unauthenticated"
    /\ ValidateRefreshToken(last.tok)
    /\ users[last.uid].refresh_token = last.tok
    /\ users[last.uid].refresh_token_expires_at < now
    /\ \E u \in UserIds \ {last.uid} :
          /\ users[u].refresh_token = NoToken
          /\ users[u].last_login # NoTime
          /\ now - users[u].last_login > SessionTimeoutDuration

----------------------------------------------------------------------------
(* Limits of the challenge flows *)

\* C17: reset attempt cap.  Through any sequence of reset requests and
\* cleanup runs, a RequestPasswordReset for an account whose attempt counter
\* is MaxPasswordResetAttempts or more and whose last attempt is less than 24
\* hours old is refused with ResourceExhausted, issues no token and leaves the
\* counter as it is.  (No attempt of SpecResetCap is older than
\* PasswordResetTokenDuration when the clock starts, so while
\* now + PasswordResetTokenDuration < PasswordResetAttemptWindow the last
\* attempt is less than 24 hours old.)
C17_ResetAttemptCap ==
    [][\A mailOk \in BOOLEAN : \A u \in FindActiveByEmail(Str("test@example.com", FALSE)) :
         (/\ users[u].password_reset_attempts >= MaxPasswordResetAttempts
          /\ now + PasswordResetTokenDuration < PasswordResetAttemptWindow
          /\ RequestPasswordReset(Str("test@example.com", FALSE), mailOk))
         => (/\ last'.inner = "ResourceExhausted"
             /\ nextTok' = nextTok
             /\ users'[u].password_reset_attempts = users[u].password_reset_attempts)]_vars

----------------------------------------------------------------------------
(* C19: accounting of verification attempts *)

\* C19: every Send or Resend that stores a fresh verification token raises the
\* account's attempt counter by exactly one; the counter is lowered only by a
\* successful VerifyEmail of that account, which sets it to 0; while the counter
\* of an unverified account is at MaxEmailVerificationAttempts or above, every
\* Send and Resend for it answers ResourceExhausted and stores nothing; hence
\* the counter never exceeds the maximum, and an account that never verifies is
\* sent at most that many tokens.
C19_VerificationAttemptAccounting ==
    [][\A u \in UserIds :
         LET row == users[u]
             new == users'[u]
             a == row.email_verification_attempts
             b == new.email_verification_attempts
             issues == /\ new.email_verification_token # NoTok
                       /\ new.email_verification_token # row.email_verification_token
             SendOrResend == \E mailOk \in BOOLEAN :
                                \/ SendVerificationEmail(u, mailOk)
                                \/ ResendVerificationEmail(u, mailOk)
         IN
         /\ issues => /\ SendOrResend
                      /\ b = a + 1
                      /\ new.email_verification_token = nextTok
                      /\ nextTok' = nextTok + 1
         /\ b > a => issues
         /\ b < a => /\ last'.op = "VerifyEmail"
                     /\ last'.code = "OK"
                     /\ last'.uid = u
                     /\ new.email_verified
                     /\ b = 0
         /\ (/\ a >= MaxEmailVerificationAttempts
             /\ ~row.email_verified
             /\ SendOrResend)
            => /\ last'.code = "ResourceExhausted"
               /\ users' = users
               /\ nextTok' = nextTok
               /\ journal' = journal
         /\ b <= MaxEmailVerificationAttempts
    ]_vars

\* the last permitted token has been issued to account 1 and a further Send or
\* Resend was turned away
C19_Witness ==
    /\ last.op \in {"SendVerificationEmail", "ResendVerificationEmail"}
    /\ last.uid = 1
    /\ last.code = "ResourceExhausted"
    /\ users[1].email_verification_attempts = MaxEmailVerificationAttempts
    /\ users[1].email_verification_token # NoTok
    /\ ~users[1].email_verified


----------------------------------------------------------------------------
(* C20: the resend rate limit *)

\* C20: a ResendVerificationEmail for an unverified account whose stored
\* verification token was issued less than EmailVerificationResendLimit ago
\* answers ResourceExhausted and changes neither the account rows, the journal
\* nor the token supply; a resend that issues a token finds no stored expiry or
\* finds the window elapsed; and every token is stored with the expiry
\* now + EmailVerificationTokenDuration, from which the issue time is read.
C20_ResendRateLimit ==
    [][\A u \in UserIds :
         LET row == users[u]
             new == users'[u]
             issuedAt == row.email_verification_expires_at
                            - EmailVerificationTokenDuration
             pending == row.email_verification_expires_at # NoTime
             Resend == \E mailOk \in BOOLEAN : ResendVerificationEmail(u, mailOk)
             issues == /\ new.email_verification_token # NoTok
                       /\ new.email_verification_token # row.email_verification_token
         IN
         /\ (/\ ~row.email_verified
             /\ pending
             /\ now - issuedAt < EmailVerificationResendLimit
             /\ Resend)
            => /\ last'.code = "ResourceExhausted"
               /\ users' = users
               /\ journal' = journal
               /\ nextTok' = nextTok
         /\ (Resend /\ issues)
            => \/ ~pending
               \/ now - issuedAt >= EmailVerificationResendLimit
         /\ issues => new.email_verification_expires_at
                         = now + EmailVerificationTokenDuration
    ]_vars

\* a resend for account 1 was turned away inside the window although the
\* account had attempts left
C20_Witness ==
    /\ last.op = "ResendVerificationEmail"
    /\ last.uid = 1
    /\ last.code = "ResourceExhausted"
    /\ ~users[1].email_verified
    /\ users[1].email_verification_token # NoTok
    /\ users[1].email_verification_attempts < MaxEmailVerificationAttempts
    /\ now > 0
    /\ now - (users[1].email_verification_expires_at - EmailVerificationTokenDuration)
          < EmailVerificationResendLimit


----------------------------------------------------------------------------
(* C22: registration keeps identifiers unique and lower-cased *)

\* C22: whatever Register calls ran, one after another or at the same time, no
\* two accounts share an email or a username, every stored email and username
\* is its own lower-cased form, and a Register call that answers while an
\* account with its lower-cased email or username exists answers AlreadyExists
\* and creates no account.
C22_RegisterUnique ==
    [][/\ \A u, v \in DOMAIN users' :
             u # v => /\ users'[u].email # users'[v].email
                      /\ users'[u].username # users'[v].username
       /\ \A u \in DOMAIN users' :
             /\ users'[u].email = ToLower(users'[u].email)
             /\ users'[u].username = ToLower(users'[u].username)
       /\ \A c \in {"a", "b"}, req \in RegisterRequests :
             (/\ validateRegisterRequest(req)
              /\ Exists(req.email, req.username)
              /\ \/ RegisterCheck(c, req)
                 \/ /\ [caller |-> c, req |-> req] \in registering
                    /\ \E mailOk \in BOOLEAN : RegisterCreate(c, mailOk))
             => /\ last'.code = "AlreadyExists"
                /\ users' = users
    ]_vars


----------------------------------------------------------------------------
(* C23: a registered account can log in *)

\* C23: when Register(e, u, p) has just answered OK with the new account's id,
\* a Login with e or u as identifier, typed in either letter case, and password
\* p answers OK for that account, and the access token returned with it passes
\* ValidateAccessToken and carries the id of the new account.
C23_RegisteredCanLogin ==
    [][\A c \in BOOLEAN, p \in Passwords :
          (/\ last.op = "Register"
           /\ last.code = "OK"
           /\ p.text = last.pw
           /\ \/ Login(Str(last.reg.email.text, c), p)
              \/ Login(Str(last.reg.username.text, c), p))
          => /\ last'.op = "Login"
             /\ last'.code = "OK"
             /\ last'.uid = last.uid
             /\ last.uid \notin Fixtures
             /\ ValidateAccessToken(PairedAccessToken(last'.rt))
             /\ PairedAccessToken(last'.rt).uid = last.uid
    ]_vars

\* an account made by Register has logged in: its session is the second one
\* issued and its row carries the time of the login
C23_Witness ==
    /\ last.op = "Login"
    /\ last.code = "OK"
    /\ last.uid \in UserIds \ Fixtures
    /\ users[last.uid].last_login = now
    /\ users[last.uid].refresh_token = last.rt
    /\ Cardinality(issued) = 2


----------------------------------------------------------------------------
(* C21: a stored challenge token has an expiry *)

\* C21: in every state reached by Register, Send, Resend, VerifyEmail, reset
\* requests, ResetPassword and the two cleanups, every account whose
\* verification token is set has its verification expiry set, and every account
\* whose reset token is set has its reset expiry set.
C21_TokenHasExpiry ==
    \A u \in UserIds :
       /\ users[u].email_verification_token # NoTok
             => users[u].email_verification_expires_at # NoTime
       /\ users[u].password_reset_token # NoTok
             => users[u].password_reset_expires_at # NoTime

\* the reset token of account 1 expired and was cleaned up while an account
\* made by Register holds the verification token it was sent
C21_Witness ==
    /\ last.op = "CleanupExpiredResetTokens"
    /\ users[1].password_reset_attempts > 0
    /\ users[1].password_reset_token = NoTok
    /\ users[1].password_reset_expires_at = NoTime
    /\ \E u \in UserIds \ Fixtures :
          /\ users[u].email_verification_token # NoTok
          /\ users[u].email_verification_expires_at # NoTime


----------------------------------------------------------------------------
(* C24: the cleanups are idempotent *)

\* C24: from every reachable table, running the verification cleanup twice
\* without the clock advancing in between leaves every account as running it
\* once does, and so does the reset cleanup; a cleanup step leaves a table a
\* further run of it would not change.
C24_CleanupIdempotent ==
    [][/\ ExpiredVerificationTokensCleared(ExpiredVerificationTokensCleared(users))
             = ExpiredVerificationTokensCleared(users)
       /\ ExpiredResetTokensCleared(ExpiredResetTokensCleared(users))
             = ExpiredResetTokensCleared(users)
       /\ CleanupExpiredVerificationTokens
             => ExpiredVerificationTokensCleared(users') = users'
       /\ CleanupExpiredResetTokens
             => ExpiredResetTokensCleared(users') = users'
    ]_vars

\* the verification cleanup has just removed the expired token of account 1,
\* which had been sent one and never verified
C24_Witness ==
    /\ last.op = "CleanupExpiredVerificationTokens"
    /\ users[1].email_verification_attempts > 0
    /\ ~users[1].email_verified
    /\ users[1].email_verification_token = NoTok
    /\ users[1].email_verification_expires_at = NoTime


----------------------------------------------------------------------------
(* C28: an expired verification token *)

\* C28: VerifyEmail with the pending token of an unverified account whose
\* expiry has passed answers DeadlineExceeded and changes no account (the
\* account stays unverified with the same token, expiry and attempt counter),
\* nor the journal.
C28_ExpiredTokenRefused ==
    [][\A t \in 1 .. MaxChallenges + 1 : \A u \in UserIds :
          (/\ users[u].email_verification_token = t
           /\ ~users[u].email_verified
           /\ users[u].email_verification_expires_at # NoTime
           /\ users[u].email_verification_expires_at < now
           /\ VerifyEmail(t))
          => /\ last'.code = "DeadlineExceeded"
             /\ users' = users
             /\ journal' = journal
             /\ consumed' = consumed
    ]_vars

\* VerifyEmail was refused for the token account 1 still holds past its expiry
C28_Witness ==
    /\ last.op = "VerifyEmail"
    /\ last.code = "DeadlineExceeded"
    /\ last.uid = 1
    /\ users[1].email_verification_token = last.ch
    /\ users[1].email_verification_expires_at < now
    /\ ~users[1].email_verified
    /\ users[1].email_verification_attempts > 0


----------------------------------------------------------------------------
(* C25: the journal of the lockout scenario *)

\* C25: with MaxLoginAttempts = 3, when the test user has made three
\* wrong-password logins and no successful one, the lock they caused has
\* expired, and a login with the right password follows, the journal reads
\* login_failed, login_failed, login_failed, account_locked, login_success.
C25_LockoutScenarioJournal ==
    [][(/\ users[1].failed_login_attempts = MaxLoginAttempts
        /\ users[1].last_login = NoTime
        /\ users[1].account_locked_until # NoTime
        /\ ~IsLocked(users[1])
        /\ Login(Str("test@example.com", FALSE), TestPass))
       => /\ last'.code = "OK"
          /\ [i \in 1 .. Len(journal') |-> journal'[i].event_type]
                = <<"login_failed", "login_failed", "login_failed",
                    "account_locked", "login_success">>
    ]_vars


----------------------------------------------------------------------------
(* C26: a reset request for an address without an active account *)

\* C26: a password-reset request for a non-empty address that no active account
\* holds answers OK, issues no token (so there is nothing to mail), changes no
\* account, and appends one suspicious_activity entry to the journal.
C26_UnknownAddressJournalled ==
    [][\A e \in Addresses, mailOk \in BOOLEAN :
          (/\ e.text # ""
           /\ FindActiveByEmail(ToLower(e)) = {}
           /\ RequestPasswordReset(e, mailOk))
          => /\ last'.code = "OK"
             /\ last'.inner = "OK"
             /\ users' = users
             /\ nextTok' = nextTok
             /\ Len(journal') = Len(journal) + 1
             /\ journal'[Len(journal')].event_type = "suspicious_activity"
    ]_vars


----------------------------------------------------------------------------
(* C27: failed mail delivery *)

\* C27: a verification Send or Resend, or a password-reset request, that has
\* stored a fresh token and then fails to deliver its mail answers Internal
\* (the reset request as the status of the service call) and appends a
\* high-severity entry to the journal.
C27_MailFailureJournalled ==
    [][\A u \in UserIds :
          (/\ nextTok' # nextTok
           /\ \/ SendVerificationEmail(u, FALSE)
              \/ ResendVerificationEmail(u, FALSE)
              \/ /\ users[u].is_active
                 /\ RequestPasswordReset(users[u].email, FALSE))
          => /\ last'.inner = "Internal"
             /\ Len(journal') = Len(journal) + 1
             /\ journal'[Len(journal')].severity = "high"
    ]_vars

----------------------------------------------------------------------------
(* The journal is append-only *)

\* C29: the journal is append-only: in every step each entry already written
\* stays at its place with every field as it was, except that a step of
\* ResolveSecurityEvent may set the resolved flag of an entry to true.
C29_JournalAppendOnly ==
    [][/\ Len(journal') >= Len(journal)
       /\ \A i \in 1 .. Len(journal) :
             \/ journal'[i] = journal[i]
             \/ /\ ResolveSecurityEvent(i)
                /\ journal'[i] = [journal[i] EXCEPT !.resolved = TRUE]]_vars

\* an entry resolved, and a Login that wrote a later entry behind it
C29_Witness ==
    /\ Len(journal) >= 2
    /\ journal[1].resolved
    /\ ~journal[Len(journal)].resolved
    /\ last.op = "Login" /\ last.code = "OK"

----------------------------------------------------------------------------
(* Shutdown *)

\* C30: graceful shutdown cancels the background cleanup ticker: once the
\* shutdown has begun the cleanup job starts no further cleanup run, and calls
\* in flight are drained for at most ShutdownTimeout seconds, the server ending
\* with calls still in flight only when that deadline has passed.
C30_ShutdownCancelsCleanup ==
    [][/\ server.phase # "serving" => ~startCleanupJob
       /\ server.waited <= ShutdownTimeout
       /\ (server'.phase = "exited" /\ server.phase = "stopping" /\ registering # {})
             => server.waited = ShutdownTimeout]_vars

----------------------------------------------------------------------------
(* Attempts made during a lock *)

\* C36: a Login against a locked account checks no credential and changes no
\* account state: the failed-login counter, the lockout expiry and the stored
\* refresh token with its expiry stay as they were and nothing is journalled, so
\* the lock ends when it would have ended without the attempt.
C36_LockedLoginFrame ==
    [][\A r \in LoginRequests : \A u \in LoginTarget(r) :
         (/\ WellFormedLogin(r)
          /\ LockPending(users[u])
          /\ Login(r[1], r[2]))
         => (/\ users'[u].failed_login_attempts = users[u].failed_login_attempts
             /\ users'[u].account_locked_until = users[u].account_locked_until
             /\ users'[u].refresh_token = users[u].refresh_token
             /\ users'[u].refresh_token_expires_at = users[u].refresh_token_expires_at
             /\ users'[u].last_login = users[u].last_login
             /\ journal' = journal
             /\ nextJti' = nextJti)]_vars

\* the right password was presented to the locked account and refused: the
\* counter still stands at the threshold and the session opened before the lock
\* is still stored
C36_Witness ==
    /\ last.op = "Login" /\ last.uid = 1
    /\ last.code = "PermissionDenied" /\ last.locked
    /\ last.pw = TestPass.text
    /\ ComparePassword(users[1].password_hash, TestPass)
    /\ LockPending(users[1])
    /\ users[1].failed_login_attempts = MaxLoginAttempts
    /\ users[1].refresh_token # NoToken

----------------------------------------------------------------------------
(* The failed-login counter across a lock *)

\* C38: the failed-login counter goes down only to zero and only in a
\* successful Login, UnlockAccount or ResetPassword, never by the clock alone;
\* an account whose lockout expiry is set has a counter of at least
\* max-login-attempts, so once the lock has run out one further wrong password
\* locks the account again at once.
C38_CounterSurvivesLock ==
    [][/\ \A u \in UserIds :
            /\ users'[u].failed_login_attempts < users[u].failed_login_attempts
                  => /\ users'[u].failed_login_attempts = 0
                     /\ now' = now
                     /\ last'.op \in {"Login", "UnlockAccount", "ResetPassword"}
                     /\ last'.code = "OK"
            /\ users[u].account_locked_until # NoTime
                  => users[u].failed_login_attempts >= MaxLoginAttempts
       /\ \A r \in LoginRequests : \A u \in LoginTarget(r) :
            (/\ WellFormedLogin(r)
             /\ users[u].is_active
             /\ users[u].account_locked_until # NoTime
             /\ ~LockPending(users[u])
             /\ ~ComparePassword(users[u].password_hash, r[2])
             /\ Login(r[1], r[2]))
            => (/\ last'.code = "PermissionDenied" /\ last'.locked
                /\ users'[u].failed_login_attempts = users[u].failed_login_attempts + 1
                /\ LockPending(users'[u]))]_vars

\* the lock ran out and the next wrong password locked the account again: the
\* counter stands one above the threshold
C38_Witness ==
    /\ now >= 1
    /\ last.op = "Login" /\ last.uid = 1
    /\ last.code = "PermissionDenied" /\ last.locked
    /\ users[1].failed_login_attempts = MaxLoginAttempts + 1
    /\ users[1].account_locked_until = now + AccountLockoutDuration
    /\ Len(journal) = 2
    /\ journal[1].event_type = "account_locked"
    /\ journal[2].event_type = "account_locked"

----------------------------------------------------------------------------
(* Logout with a token that is no longer the stored one *)

\* C39: Logout presented with a correctly signed, unexpired refresh token of
\* an account clears that account's stored refresh token and expiry even when
\* the presented token is not the stored one, so the holder of a superseded
\* token ends the session held by the current token.
C39_LogoutBySupersededToken ==
    [][\A tok \in LogoutTokens :
         (/\ ValidateRefreshToken(tok)
          /\ tok.uid \in UserIds
          /\ users[tok.uid].refresh_token # NoToken
          /\ users[tok.uid].refresh_token # tok
          /\ Logout(tok))
         => (/\ last'.code = "OK"
             /\ users'[tok.uid].refresh_token = NoToken
             /\ users'[tok.uid].refresh_token_expires_at = NoTime)]_vars

\* account 1 logged in twice; the Logout presented the token of the first
\* login, which the second had replaced, and the account holds no token now
C39_Witness ==
    /\ last.op = "Logout"
    /\ last.tok.uid = 1
    /\ ValidateRefreshToken(last.tok)
    /\ users[1].refresh_token = NoToken
    /\ \E r \in issued : r.uid = 1 /\ r.jti > last.tok.jti

----------------------------------------------------------------------------
(* Access tokens and the state of their account *)

\* C40: the authenticator accepts every correctly signed, unexpired access
\* token whatever the state of its account: a call of a protected method that
\* bears such a token reaches its handler as the token's account, also after
\* the session the token came from has been ended.
C40_AccessTokenOutlivesSession ==
    [][\A c \in GatewayCalls :
         (/\ c.method \notin publicMethods
          /\ BearsAccessToken(c.header)
          /\ Unary(c))
         => (/\ ~authenticate(c.header).err
             /\ authenticate(c.header).user_id = c.header.rest.uid
             /\ last'.inner = "OK"
             /\ last'.code = "OK"
             /\ c.method = "/auth.v1.AuthService/GetSecurityEvents"
                   => last'.op = "GetSecurityEvents" /\ last'.uid = c.header.rest.uid)]_vars

\* account 1 logged in and its session was ended by a Logout; the access
\* token of that login then still read the account's events
C40_Witness ==
    /\ last.op = "GetSecurityEvents"
    /\ last.code = "OK"
    /\ last.uid = 1
    /\ users[1].last_login # NoTime
    /\ users[1].refresh_token = NoToken

----------------------------------------------------------------------------
(* The interceptor chains *)

\* C31: every call passes through the interceptors in the order
\* metadata-extractor, validator, authenticator, logger, handler, as far as it
\* gets, and a stream passes through the same interceptors in the same order
\* as a unary call.
C31_ChainOrder ==
    [][LET Order == <<"metadata-extractor", "validator", "authenticator", "logger",
                      "handler">>
           InOrder(p) == Len(p) <= Len(Order) /\ p = SubSeq(Order, 1, Len(p))
       IN /\ \A c \in GatewayCalls :
               Serve(ChainUnaryInterceptor, TRUE, c)
               => InOrder(Passed(ChainUnaryInterceptor, TRUE, c))
          /\ \A c \in StreamCalls :
               Serve(ChainStreamInterceptor, FALSE, c)
               => InOrder(Passed(ChainStreamInterceptor, FALSE, c))]_vars

----------------------------------------------------------------------------
(* Role gating *)

\* C32: the interceptor built by RequireRole(roles) rejects a call with
\* permission-denied, without invoking the handler, both when the context
\* carries no role and when the context role is not in the given set; it
\* invokes the handler only when the role is in the set.
C32_RequireRoleDenies ==
    [][\A roles \in {{"admin"}, {"user", "manager"}}, c \in RoleCalls :
         RequireRole(roles, authenticate(c.header), c)
         => IF authenticate(c.header).err \/ authenticate(c.header).role \notin roles
            THEN /\ last'.code = "PermissionDenied"
                 /\ last'.inner = "none"
                 /\ UNCHANGED <<users, journal, issued>>
            ELSE last'.inner # "none"]_vars

\* C32, as the interceptor behaves: a call whose context carries no role is
\* rejected with unauthenticated, a call whose context role is not in the given
\* set with permission-denied, both without invoking the handler; the handler
\* is invoked only when the role is in the set.
C32_RequireRoleRejects ==
    [][\A roles \in {{"admin"}, {"user", "manager"}}, c \in RoleCalls :
         RequireRole(roles, authenticate(c.header), c)
         => IF authenticate(c.header).err
            THEN /\ last'.code = "Unauthenticated"
                 /\ last'.inner = "none"
                 /\ UNCHANGED <<users, journal, issued>>
            ELSE IF authenticate(c.header).role \notin roles
            THEN /\ last'.code = "PermissionDenied"
                 /\ last'.inner = "none"
                 /\ UNCHANGED <<users, journal, issued>>
            ELSE last'.inner # "none"]_vars

\* a call bearing the valid access token of the test user, whose role is
\* user, was turned away with permission-denied before its handler
C32_Witness ==
    /\ last.code = "PermissionDenied"
    /\ last.inner = "none"
    /\ last.op = "/auth.v1.AuthService/GetSecurityEvents"
    /\ ValidateAccessToken(last.tok)
    /\ Role(last.tok.uid) = "user"

----------------------------------------------------------------------------
(* The verification status and the resend checks *)

\* C37: the can-resend of a verification status agrees with Resend: in every
\* account state and at every instant it is true exactly when a
\* ResendVerificationEmail made at that instant would pass its
\* already-verified, rate-limit and attempt-cap checks.
C37_CanResendAgrees ==
    [][\A u \in UserIds :
         GetVerificationStatus(u)
         => (last'.can_resend
               <=> (/\ ~users[u].email_verified
                    /\ ~ResendRateLimited(users[u])
                    /\ users[u].email_verification_attempts
                          < MaxEmailVerificationAttempts))]_vars

----------------------------------------------------------------------------
(* Calls of one account running concurrently *)

\* C33: failed-attempt accounting is not lost under concurrency: every
\* wrong-password Login that completes on an unlocked, active account leaves
\* the stored failed-login counter one higher than it found it stored, or
\* leaves the account locked, whatever other Logins of the account ran between
\* its query and its update.
C33_FailedAttemptCounted ==
    [][\A c \in {"a", "b"} : \A call \in inflight :
         (/\ call.caller = c
          /\ call.op = "Login"
          /\ LoginFinish(c)
          /\ call.row.password_hash = users[call.uid].password_hash
          /\ call.row.is_active
          /\ ~IsLocked(call.row)
          /\ ~IsLocked(users[call.uid])
          /\ ~ComparePassword(call.row.password_hash, call.pw))
         => \/ users'[call.uid].failed_login_attempts
                  = users[call.uid].failed_login_attempts + 1
            \/ users'[call.uid].account_locked_until # NoTime]_vars

\* C34: a stored refresh token is redeemed at most once even under
\* concurrency: a RefreshToken call that completes successfully presented a
\* token that no earlier call redeemed.
C34_RedeemedOnce ==
    [][\A c \in {"a", "b"} :
         (RefreshTokenFinish(c) /\ last'.code = "OK")
         => last'.tok \notin redeemed]_vars

\* C35: session revocation by password change holds in every interleaving:
\* a RefreshToken or Login that read the row before a password change and
\* completes after it, while the stored refresh token is still empty, leaves
\* the stored refresh token empty.
C35_RevocationHolds ==
    [][\A c \in {"a", "b"} : \A call \in inflight :
         (/\ call.caller = c
          /\ (LoginFinish(c) \/ RefreshTokenFinish(c))
          /\ call.row.password_hash # users[call.uid].password_hash
          /\ users[call.uid].refresh_token = NoToken)
         => users'[call.uid].refresh_token = NoToken]_vars

====
